---- MODULE Spec2Model ----
(***************************************************************************)
(* x402-actions: the payment gate (src/lib/x402-middleware.ts), the route  *)
(* handlers of src/index.ts and the sponsored swap workflow of             *)
(* src/actions/gasless-swap.ts, as a state machine over concurrent HTTP    *)
(* requests.  Every await of the code is a step boundary; the code between *)
(* two awaits is one action.                                               *)
(***************************************************************************)
EXTENDS Integers, Sequences, FiniteSets, TLC

(***************************************************************************)
(* Bounds of the model.                                                    *)
(***************************************************************************)
\* number of concurrent requests of the gate specification
NumReq == 1
\* number of concurrent requests of the swap workflow specification
NumSwapReq == 2
\* number of clock steps (each half a quote lifetime) the clock may take
MaxTicks == 3
\* requests in flight in the asset specification
NumAssetReq == 2
\* largest numerator of an amount that is converted
MaxUnits == 50
\* hops of a route plan
MaxLabels == 4
\* requests of the client specification
NumClientReq == 2

(***************************************************************************)
(* JavaScript values.  Optional strings are strings; undefined is a        *)
(* distinguished string, "" is the empty (falsy) string.                   *)
(***************************************************************************)
Undefined == "undefined"
EmptyString == ""
Truthy(v) == v /= Undefined /\ v /= EmptyString
\* a || b on optional strings
OrElse(a, b) == IF Truthy(a) THEN a ELSE b

(***************************************************************************)
(* Asset identifiers are character strings that the code upper-cases and   *)
(* looks up, so they are sequences of characters.  A value that is no      *)
(* string (undefined) is NoString; the empty string is <<>>.  Addresses,   *)
(* 43 or 44 characters in the source, are cut to their first five.         *)
(***************************************************************************)
NoString == <<Undefined>>
TruthyString(s) == s /= NoString /\ s /= <<>>
\* a || b on optional character strings
OrElseString(a, b) == IF TruthyString(a) THEN a ELSE b

LowerCaseLetters == <<"a", "b", "c", "d", "e", "f", "g", "h", "i", "j", "k", "l", "m",
                      "n", "o", "p", "q", "r", "s", "t", "u", "v", "w", "x", "y", "z">>
UpperCaseLetters == <<"A", "B", "C", "D", "E", "F", "G", "H", "I", "J", "K", "L", "M",
                      "N", "O", "P", "Q", "R", "S", "T", "U", "V", "W", "X", "Y", "Z">>

\* String.prototype.toUpperCase, character by character
ToUpperChar(c) ==
  IF \E i \in DOMAIN LowerCaseLetters : LowerCaseLetters[i] = c
  THEN UpperCaseLetters[CHOOSE i \in DOMAIN LowerCaseLetters : LowerCaseLetters[i] = c]
  ELSE c
ToUpperCase(s) == [i \in DOMAIN s |-> ToUpperChar(s[i])]

\* config.tokens (config.ts 8-14)
SOL_MINT == <<"S", "o", "1", "1", "1">>
USDC_TOKEN_MINT == <<"E", "P", "j", "F", "W">>
USDT_MINT == <<"E", "s", "9", "v", "M">>
RAY_MINT == <<"4", "k", "3", "D", "y">>
JUP_MINT == <<"J", "U", "P", "y", "i">>
tokens ==
  [sym \in {<<"S", "O", "L">>, <<"U", "S", "D", "C">>, <<"U", "S", "D", "T">>,
            <<"R", "A", "Y">>, <<"J", "U", "P">>} |->
     CASE sym = <<"S", "O", "L">>      -> SOL_MINT
       [] sym = <<"U", "S", "D", "C">> -> USDC_TOKEN_MINT
       [] sym = <<"U", "S", "D", "T">> -> USDT_MINT
       [] sym = <<"R", "A", "Y">>      -> RAY_MINT
       [] OTHER                        -> JUP_MINT]

getTokenMintExactCase(symbol) ==
  IF symbol \in DOMAIN tokens THEN tokens[symbol] ELSE NoString

\* config.getTokenMint (config.ts 17-20): this.tokens[symbol.toUpperCase()]
getTokenMint(symbol) ==
  LET upper == ToUpperCase(symbol)
  IN IF upper \in DOMAIN tokens THEN tokens[upper] ELSE NoString

\* swap.ts 97-98: config.getTokenMint(x) || x
ResolveMint(x) == OrElseString(getTokenMint(x), x)

(***************************************************************************)
(* The ledger: the mint accounts it holds and their decimals, which never  *)
(* change.  new PublicKey(text) throws unless the text is the base58 form  *)
(* of 32 bytes.                                                            *)
(***************************************************************************)
UNSEEN_MINT == <<"D", "e", "z", "X", "A">>
NFT_MINT == <<"N", "f", "t", "1", "1">>
NOT_A_MINT == <<"W", "a", "1", "1", "e">>
\* the address of an account of the token program that is no mint (the token
\* account of a wallet): the ledger parses it, and what it parses has no
\* decimals member
TOKEN_ACCOUNT == <<"T", "k", "n", "A", "c">>
MintAccounts ==
  [m \in {SOL_MINT, USDC_TOKEN_MINT, USDT_MINT, RAY_MINT, JUP_MINT,
          UNSEEN_MINT, NFT_MINT} |->
     CASE m = SOL_MINT    -> 9
       [] m = UNSEEN_MINT -> 5
       [] m = NFT_MINT    -> 0
       [] OTHER           -> 6]

AddressLen == 5
IsPublicKey(text) ==
  /\ Len(text) = AddressLen
  /\ \A i \in DOMAIN text : text[i] \notin {"0", "O", "I", "l"}

(***************************************************************************)
(* Numbers are IEEE 754 doubles.  A natural number is a sequence of limbs  *)
(* of LimbBits bits, lowest first, without leading zero limbs; a positive  *)
(* double is a significand of at most SignificandBits bits and a binary    *)
(* exponent, the zero double has the empty significand.  Every operation   *)
(* rounds to nearest, ties to even, as the hardware does.                  *)
(***************************************************************************)
SignificandBits == 53
LimbBits == 24
LimbBase == 2 ^ LimbBits
\* limbs of zeros put under the dividend before a division is rounded
DivisionScaleLimbs == 4

Zeros(n) == [i \in 1..n |-> 0]

\* the limbs of a number below LimbBase^2
NatLimbs(n) ==
  IF n = 0 THEN <<>>
  ELSE IF n < LimbBase THEN <<n>> ELSE <<n % LimbBase, n \div LimbBase>>

\* the number of at most two limbs
LimbsNat(l) ==
  IF l = <<>> THEN 0 ELSE IF Len(l) = 1 THEN l[1] ELSE l[1] + LimbBase * l[2]

TrimLimbs(l) ==
  LET used == {i \in DOMAIN l : l[i] /= 0}
  IN IF used = {} THEN <<>>
     ELSE SubSeq(l, 1, CHOOSE i \in used : \A j \in used : j <= i)

\* l * 10 + carry
RECURSIVE TimesTen(_, _)
TimesTen(l, carry) ==
  IF l = <<>>
  THEN IF carry = 0 THEN <<>> ELSE <<carry>>
  ELSE LET cur == 10 * l[1] + carry
       IN <<cur % LimbBase>> \o TimesTen(Tail(l), cur \div LimbBase)

RECURSIVE TimesPowerOfTen(_, _)
TimesPowerOfTen(l, d) == IF d = 0 THEN l ELSE TimesPowerOfTen(TimesTen(l, 0), d - 1)

\* l + carry
RECURSIVE PlusSmall(_, _)
PlusSmall(l, carry) ==
  IF carry = 0 THEN l
  ELSE IF l = <<>> THEN <<carry>>
  ELSE LET cur == l[1] + carry
       IN <<cur % LimbBase>> \o PlusSmall(Tail(l), cur \div LimbBase)

\* long division of l by ten from the highest limb down to limb i
RECURSIVE DivTenFrom(_, _, _, _)
DivTenFrom(l, i, rem, quot) ==
  IF i = 0
  THEN [quot |-> TrimLimbs(quot), exact |-> rem = 0]
  ELSE LET cur == LimbBase * rem + l[i]
       IN DivTenFrom(l, i - 1, cur % 10, <<cur \div 10>> \o quot)

\* floor(l / 10^k), and whether the division left no remainder
RECURSIVE DivPowerOfTen(_, _, _)
DivPowerOfTen(l, k, exact) ==
  IF k = 0
  THEN [quot |-> l, exact |-> exact]
  ELSE LET step == DivTenFrom(l, Len(l), 0, <<>>)
       IN DivPowerOfTen(step.quot, k - 1, exact /\ step.exact)

\* bit i of l, the lowest being bit 1
BitOf(l, i) ==
  LET limb == (i - 1) \div LimbBits + 1
  IN IF limb > Len(l) THEN 0
     ELSE (l[limb] \div (2 ^ ((i - 1) % LimbBits))) % 2

\* the number of bits of l
BitLen(l) ==
  IF l = <<>> THEN 0
  ELSE LimbBits * (Len(l) - 1)
       + (CHOOSE k \in 1..LimbBits : 2 ^ (k - 1) <= l[Len(l)] /\ l[Len(l)] < 2 ^ k)

LimbAt(l, i) == IF i \in DOMAIN l THEN l[i] ELSE 0

\* floor(l / 2^s)
ShiftRight(l, s) ==
  LET skip == s \div LimbBits
      low == 2 ^ (s % LimbBits)
      high == 2 ^ (LimbBits - (s % LimbBits))
  IN TrimLimbs([j \in 1..Len(l) |->
       LimbAt(l, skip + j) \div low + (LimbAt(l, skip + j + 1) % low) * high])

\* l * 2^s
ShiftLeft(l, s) ==
  LET low == 2 ^ (s % LimbBits)
      high == 2 ^ (LimbBits - (s % LimbBits))
  IN IF l = <<>> THEN l
     ELSE Zeros(s \div LimbBits)
          \o TrimLimbs([j \in 1..(Len(l) + 1) |->
               (LimbAt(l, j) % high) * low + LimbAt(l, j - 1) \div high])

\* the double nearest to l * 2^exp, where exact says that l is the whole value
RoundToDouble(l, exp, exact) ==
  IF BitLen(l) <= SignificandBits
  THEN [sig |-> l, exp |-> exp]
  ELSE LET drop == BitLen(l) - SignificandBits
           kept == ShiftRight(l, drop)
           half == BitOf(l, drop) = 1
           sticky == ~exact \/ \E i \in 1..(drop - 1) : BitOf(l, i) = 1
           up == half /\ (sticky \/ BitOf(kept, 1) = 1)
           sig == IF up THEN PlusSmall(kept, 1) ELSE kept
       IN IF BitLen(sig) > SignificandBits
          THEN [sig |-> ShiftRight(sig, 1), exp |-> exp + drop + 1]
          ELSE [sig |-> sig, exp |-> exp + drop]

\* a decimal numeral: units / 10^digits, written with digits fraction digits
Decimal(units, digits) == [units |-> units, digits |-> digits]

\* parseFloat(text) of a decimal numeral, and the quotient n / 10 ** k of two
\* exactly represented numbers: the double nearest to units / 10^digits
ParseFloat(a) ==
  IF a.units = 0
  THEN [sig |-> <<>>, exp |-> 0]
  ELSE LET q == DivPowerOfTen(Zeros(DivisionScaleLimbs) \o NatLimbs(a.units),
                              a.digits, TRUE)
       IN RoundToDouble(q.quot, 0 - LimbBits * DivisionScaleLimbs, q.exact)

\* x * 10 ** d: 10 ** d is exact for the d in use, the product is rounded
TimesTenToThe(x, d) == RoundToDouble(TimesPowerOfTen(x.sig, d), x.exp, TRUE)

\* Math.floor(x) of a double that is not negative, as a natural number
MathFloor(x) ==
  IF x.exp >= 0
  THEN LimbsNat(ShiftLeft(x.sig, x.exp))
  ELSE LimbsNat(ShiftRight(x.sig, 0 - x.exp))

\* undefined where a number is read, and NaN, which arithmetic makes of it
NotANumber == 0 - 1

\* part_003 263: Math.floor(amount * 10 ** inputDecimals); parseFloat of an
\* absent amount is NaN as well
AmountLamports(amount, inputDecimals) ==
  IF "units" \notin DOMAIN amount \/ inputDecimals = NotANumber THEN NotANumber
  ELSE MathFloor(TimesTenToThe(ParseFloat(amount), inputDecimals))

\* x.toFixed(d): the decimal numeral with d fraction digits nearest to the
\* exact value of the double x, a tie going up
ToFixed(x, d) ==
  LET scaled == TimesPowerOfTen(x.sig, d)
  IN IF x.exp >= 0
     THEN Decimal(LimbsNat(ShiftLeft(scaled, x.exp)), d)
     ELSE Decimal(LimbsNat(PlusSmall(ShiftRight(scaled, 0 - x.exp),
                                     BitOf(scaled, 0 - x.exp))), d)

\* part_003 341-342: (parseInt(raw) / 10 ** decimals).toFixed(decimals)
HumanAmount(raw, decimals) == ToFixed(ParseFloat(Decimal(raw, decimals)), decimals)

(***************************************************************************)
(* Process configuration (index.ts 36-55, x402-middleware.ts 10-12).       *)
(***************************************************************************)
USDC_MINT == "EPjFWdd5AufqSSqeM2qN1xzybapC8G4wEGGkZwyTDt1v"
USDC_DECIMALS == 6
PAY_TO_ADDRESS == "payToWallet"
QuoteTtlMs == 30000

Pow10(n) == IF n = 0 THEN 1
            ELSE IF n = 1 THEN 10
            ELSE IF n = 2 THEN 100
            ELSE IF n = 3 THEN 1000
            ELSE IF n = 4 THEN 10000
            ELSE IF n = 5 THEN 100000
            ELSE IF n = 6 THEN 1000000
            ELSE IF n = 7 THEN 10000000
            ELSE IF n = 8 THEN 100000000
            ELSE 1000000000

\* A price in cents as the fraction num/den (0.1 cent is 1/10).
Cents(num, den) == [num |-> num, den |-> den]

PricedRouteKeys == {"POST /actions/swap", "POST /gasless/quote",
                    "POST /gasless/build", "POST /gasless/execute"}
FreeRouteKeys == {"GET /", "GET /actions.json", "GET /actions/swap",
                  "GET /gasless/status"}

\* config.routes of the installed middleware: routeKey -> RoutePrice
RoutesConfig ==
  [k \in PricedRouteKeys |->
     CASE k = "POST /actions/swap"    -> [usdCents |-> Cents(1, 10),
                                           description |-> "Execute swap transaction via Raydium"]
       [] k = "POST /gasless/quote"   -> [usdCents |-> Cents(5, 10),
                                           description |-> "Get gasless swap quote"]
       [] k = "POST /gasless/build"   -> [usdCents |-> Cents(1, 1),
                                           description |-> "Build gasless swap transaction"]
       [] k = "POST /gasless/execute" -> [usdCents |-> Cents(2, 1),
                                           description |-> "Execute gasless swap via Kora"]]

\* config.routes[routeKey] is defined
IsPriced(routeKey) == routeKey \in DOMAIN RoutesConfig

\* the price taken for dollars: the division by 100 left out
AmountAtomicUnitsOfDollars(usdCents) ==
  (usdCents.num * Pow10(USDC_DECIMALS) + usdCents.den - 1) \div usdCents.den

\* line 41: Math.ceil(priceConfig.usdCents * Math.pow(10, USDC_DECIMALS) / 100)
\* on doubles: the literal of the price is rounded to a double, and so are the
\* product and the quotient; Math.ceil adds one to the whole part when a
\* fraction bit is set
AmountAtomicUnits(usdCents) ==
  LET digits == CHOOSE k \in 0..9 : Pow10(k) = usdCents.den
      price == ParseFloat(Decimal(usdCents.num, digits))
      product == TimesTenToThe(price, USDC_DECIMALS)
      scaled == DivPowerOfTen(Zeros(DivisionScaleLimbs) \o product.sig, 2, TRUE)
      quotient == IF product.sig = <<>> THEN product
                  ELSE RoundToDouble(scaled.quot,
                                     product.exp - LimbBits * DivisionScaleLimbs,
                                     scaled.exact)
      fraction == quotient.exp < 0
                  /\ \E i \in 1..(0 - quotient.exp) : BitOf(quotient.sig, i) = 1
  IN MathFloor(quotient) + (IF fraction THEN 1 ELSE 0)

\* line 41 for the prices config.routes holds: the prices are fixed when the
\* middleware is installed, and the amount is a function of the price alone
AmountOfPrice ==
  [usdCents \in {RoutesConfig[k].usdCents : k \in DOMAIN RoutesConfig} |->
     AmountAtomicUnits(usdCents)]

(***************************************************************************)
(* Transactions.  A transaction blob is an opaque base64 string to the     *)
(* server; what it transfers is known to the ledger and the client only.   *)
(***************************************************************************)
OTHER_ADDRESS == "otherWallet"
OTHER_MINT == "Es9vMFrzaCERmJfrF4H2FYD4KCoNkY11McCe8BenwNYB"

\* payment transactions a client may present as evidence
PaymentTxs == {"txPayExecutePrice", "txPayOtherRecipient",
               "txPayOtherAsset", "txPayLess"}

\* what a payment transaction transfers (never read by the server)
Transfer(tx) ==
  CASE tx = "txPayExecutePrice"   -> [to |-> PAY_TO_ADDRESS, asset |-> USDC_MINT,
                                       amount |-> AmountAtomicUnits(Cents(2, 1))]
    [] tx = "txPayOtherRecipient" -> [to |-> OTHER_ADDRESS, asset |-> USDC_MINT,
                                       amount |-> AmountAtomicUnits(Cents(2, 1))]
    [] tx = "txPayOtherAsset"     -> [to |-> PAY_TO_ADDRESS, asset |-> OTHER_MINT,
                                       amount |-> AmountAtomicUnits(Cents(2, 1))]
    [] tx = "txPayLess"           -> [to |-> PAY_TO_ADDRESS, asset |-> USDC_MINT,
                                       amount |-> 1]
    [] OTHER                      -> [to |-> Undefined, asset |-> Undefined,
                                       amount |-> 0]

(***************************************************************************)
(* Request headers.  A header is absent, present with an empty value, or   *)
(* present with a text; the text decodes (base64, utf-8) to a document     *)
(* that JSON.parse rejects ("garbage"), or parses to null, to a scalar, or *)
(* to an object whose payload.transaction and transaction members are      *)
(* undefined, "" or a transaction blob.                                    *)
(***************************************************************************)
AbsentHeader == [kind |-> "absent", doc |-> [kind |-> "none",
                 payloadTx |-> Undefined, topTx |-> Undefined]]
EmptyHeader == [kind |-> "empty", doc |-> [kind |-> "none",
                payloadTx |-> Undefined, topTx |-> Undefined]]
TextHeader(kind, payloadTx, topTx) ==
  [kind |-> "text", doc |-> [kind |-> kind, payloadTx |-> payloadTx, topTx |-> topTx]]

\* req.headers[name] is falsy: the header is absent or its value is ''
HeaderFalsy(h) == h.kind \in {"absent", "empty"}

\* req.headers['x-payment'] || req.headers['payment-signature']
PaymentHeader(rq) ==
  IF ~HeaderFalsy(rq.xPayment) THEN rq.xPayment ELSE rq.paymentSignature

\* x402-middleware.ts 72-76: JSON.parse(Buffer.from(h,'base64').toString())
\* and paymentPayload.payload?.transaction || paymentPayload.transaction.
\* JSON.parse throws on a text that is not JSON; reading .payload of null
\* throws a TypeError; a scalar has neither member.
ParsePayment(h) ==
  CASE h.doc.kind = "garbage" -> [threw |-> TRUE, transaction |-> Undefined]
    [] h.doc.kind = "null"    -> [threw |-> TRUE, transaction |-> Undefined]
    [] h.doc.kind = "scalar"  -> [threw |-> FALSE, transaction |-> Undefined]
    [] h.doc.kind = "object"  -> [threw |-> FALSE,
                                  transaction |-> OrElse(h.doc.payloadTx, h.doc.topTx)]
    [] OTHER                  -> [threw |-> TRUE, transaction |-> Undefined]

(***************************************************************************)
(* The 402 challenge (x402-middleware.ts 41-57).                           *)
(***************************************************************************)
\* process.env.KORA_FEE_PAYER (unset in the reference deployment)
KORA_FEE_PAYER == Undefined

PaymentRequirements(payTo, priceConfig) ==
  [x402Version |-> 1,
   scheme |-> "exact",
   network |-> "solana",
   payTo |-> payTo,
   amount |-> AmountOfPrice[priceConfig.usdCents],
   asset |-> USDC_MINT,
   description |-> priceConfig.description,
   maxTimeoutSeconds |-> 60,
   extra |-> [feePayer |-> OrElse(KORA_FEE_PAYER, payTo)]]

\* JSON.stringify of an object: a member whose value is undefined is omitted
\* (OptionalMembers: the members that hold optional strings)
JsonStringify(obj) ==
  LET OptionalMembers == {"payTo", "description", "transactionHash"}
      kept == {k \in DOMAIN obj : ~(k \in OptionalMembers /\ obj[k] = Undefined)}
  IN [k \in kept |-> obj[k]]

\* Buffer.from(text).toString('base64'): the text under its base64 coding
Base64Encode(text) == [encoding |-> "base64", text |-> text]

(***************************************************************************)
(* Replies of the fee sponsor to a settlement submission, as the gate      *)
(* reads them (x402-middleware.ts 86-105): the fetch rejects, the body is  *)
(* not JSON, or the body is an object of which the gate reads error,       *)
(* error.message and result?.signature.                                    *)
(***************************************************************************)
\* transaction signatures the sponsor returns
PaymentSignatures == {"paymentSig"}
SwapSignatures == {"swapSig"}
NoError == [present |-> FALSE, message |-> Undefined]
RpcError(message) == [present |-> TRUE, message |-> message]

KoraReplies ==
  {[kind |-> "fetchFailed", error |-> NoError, signature |-> Undefined],
   [kind |-> "notJson", error |-> NoError, signature |-> Undefined]}
  \cup {[kind |-> "json", error |-> RpcError(m), signature |-> Undefined] :
          m \in {Undefined, "insufficient funds"}}
  \cup {[kind |-> "json", error |-> NoError, signature |-> s] :
          s \in PaymentSignatures \cup {Undefined}}

NoReply == [kind |-> "none", error |-> NoError, signature |-> Undefined]

\* await fetch(...) rejects, or await koraResponse.json() throws: control
\* goes to the catch block
SettleThrows(reply) == reply.kind \in {"fetchFailed", "notJson"}

\* the text of the thrown error (error.message in the catch block)
ThrownMessage(reply) ==
  CASE reply.kind = "fetchFailed" -> "fetch failed"
    [] reply.kind = "notJson"     -> "Unexpected token in JSON"
    [] OTHER                      -> Undefined

(***************************************************************************)
(* State.                                                                  *)
(***************************************************************************)
VARIABLES
  installed,    \* the gate middleware is installed (index.ts 41)
  req,          \* req[r]: the request r as received
  pc,           \* pc[r]: where the processing of request r stands
  res,          \* res[r]: the response of request r (status 0: not sent)
  x402Payment,  \* x402Payment[r]: (req as any).x402Payment
  nextCalls,    \* nextCalls[r]: times the gate called next() for r
  koraCalls,    \* koraCalls[r]: sponsor calls made for r, in order
  koraReply,    \* koraReply[r]: the sponsor's reply to r's settlement
  now,          \* Date.now()
  issued,       \* envelopes handed out by build responses so far
  rpcReply,     \* rpcReply[r]: what rpcCall received for r's sign-and-send
  TOKEN_DECIMALS, \* the decimals cache of the aggregator client
  ledgerCalls,  \* ledgerCalls[r]: getParsedAccountInfo calls of r, in order
  aggregatorCalls, \* aggregatorCalls[r]: aggregator calls of r, in order
  locals,       \* locals[r]: local variables of r's aggregator client calls
  arg,          \* the argument of a function applied on its own
  ret,          \* and what it returned
  socket,       \* socket[r]: the client's connection of request r
  stalled       \* requests whose upstream calls are never answered
\* socket[r].settling: the connection was closed while r's settlement
\* submission was with the sponsor

assetVars == <<TOKEN_DECIMALS, ledgerCalls, aggregatorCalls, locals>>
callVars == <<arg, ret>>

vars == <<installed, req, pc, res, x402Payment, nextCalls, koraCalls,
          koraReply, now, issued, rpcReply, assetVars, callVars, socket, stalled>>

\* the decimals cache as the module is loaded (part_003 185-191)
InitialDecimals ==
  [m \in {SOL_MINT, USDC_TOKEN_MINT, USDT_MINT, RAY_MINT, JUP_MINT} |->
     IF m = SOL_MINT THEN 9 ELSE 6]

\* no aggregator client call of the request has run yet
NoLocals == [lookups |-> <<>>, decimals |-> <<>>, pending |-> {},
             transaction |-> Undefined]

\* no function is being applied on its own
NotApplied == [kind |-> "none"]

\* a decimal amount that is not there
NoAmount == [kind |-> "undefined"]

\* the members of a request body (for POST /actions/swap: the account of the
\* body and the query parameters)
Body(signedTransaction, account, inputMint, outputMint, amount, userWallet) ==
  [signedTransaction |-> signedTransaction, account |-> account,
   inputMint |-> inputMint, outputMint |-> outputMint, amount |-> amount,
   userWallet |-> userWallet]

EmptyBody == Body(Undefined, Undefined, NoString, NoString, NoAmount, Undefined)

Request(route, xPayment, paymentSignature, body) ==
  [route |-> route, xPayment |-> xPayment, paymentSignature |-> paymentSignature,
   signedTransaction |-> body.signedTransaction, account |-> body.account,
   inputMint |-> body.inputMint, outputMint |-> body.outputMint,
   amount |-> body.amount, userWallet |-> body.userWallet,
   feeToken |-> Undefined, receivedAt |-> 0]

NoRequest == Request("none", AbsentHeader, AbsentHeader, EmptyBody)
NoReceipt == [kind |-> "undefined"]
NoBody == [kind |-> "none"]
Unsent == [status |-> 0, headers |-> <<>>, body |-> NoBody]

\* routeKey = `${req.method} ${req.path}`
RouteKey(rq) == rq.route

\* the route the router dispatches the request to: express() and Router() are
\* created with their default options (index.ts 14, swap.ts 10), under which
\* a path matches a route whatever the case of its letters and with or
\* without a trailing slash
MountedRoute(rq) ==
  CASE rq.route \in {"POST /actions/swap/", "POST /Actions/Swap"}       -> "POST /actions/swap"
    [] rq.route \in {"POST /gasless/quote/", "POST /gasless/Quote"}     -> "POST /gasless/quote"
    [] rq.route \in {"POST /gasless/build/", "POST /GASLESS/BUILD"}     -> "POST /gasless/build"
    [] rq.route \in {"POST /gasless/execute/", "POST /Gasless/execute"} -> "POST /gasless/execute"
    [] OTHER -> rq.route

\* res.status(code).json(body): the response is sent, headers kept
Send(r, code, body) ==
  res' = [res EXCEPT ![r] = [status |-> code, headers |-> res[r].headers,
                             body |-> body]]

\* res.status(code).set(name1, v).set(name2, v).json(body)
SendWithHeaders(r, code, hdrs, body) ==
  res' = [res EXCEPT ![r] = [status |-> code, headers |-> hdrs, body |-> body]]

ErrorBody(error, message) == [kind |-> "error", error |-> error, message |-> message]

\* a call of the sponsor's JSON-RPC interface, and the function making it
KoraCall(caller, method, transaction) ==
  [caller |-> caller, method |-> method, transaction |-> transaction]

\* res.set(name, value)
SetHeader(hdrs, name, value) ==
  [k \in DOMAIN hdrs \cup {name} |-> IF k = name THEN value ELSE hdrs[k]]

(***************************************************************************)
(* A request arrives: method, path, headers and (parsed) body are the      *)
(* client's choice.                                                        *)
(***************************************************************************)
Arrive(r, rq) ==
  /\ pc[r] = "idle"
  \* requests are numbered in their order of arrival
  /\ IF r = 1 THEN TRUE ELSE pc[r - 1] /= "idle"
  /\ req' = [req EXCEPT ![r] = [rq EXCEPT !.receivedAt = now]]
  /\ pc' = [pc EXCEPT ![r] = "received"]
  /\ UNCHANGED <<installed, stalled, socket, rpcReply, assetVars, callVars, res, x402Payment, nextCalls, koraCalls, koraReply,
                 now, issued>>

(***************************************************************************)
(* x402Middleware, lines 29-101: from entry to the first await.            *)
(***************************************************************************)
\* GatePassThrough without its return: next() is called and the challenge of
\* lines 59-66 is sent as well
GatePassThroughNoReturn(r) ==
  /\ nextCalls' = [nextCalls EXCEPT ![r] = @ + 1]
  /\ pc' = [pc EXCEPT ![r] = "routed"]
  /\ Send(r, 402, ErrorBody("Payment Required", "This endpoint requires payment"))
  /\ UNCHANGED <<x402Payment, koraCalls>>

\* a gate that decodes a payment header before it looks up the price
GatePassThroughDecodesFirst(r) ==
  IF ~HeaderFalsy(PaymentHeader(req[r])) /\ ParsePayment(PaymentHeader(req[r])).threw
  THEN /\ Send(r, 400, ErrorBody("Invalid payment", "Unexpected token in JSON"))
       /\ pc' = [pc EXCEPT ![r] = "done"]
       /\ UNCHANGED <<x402Payment, nextCalls, koraCalls>>
  ELSE /\ nextCalls' = [nextCalls EXCEPT ![r] = @ + 1]
       /\ pc' = [pc EXCEPT ![r] = "routed"]
       /\ UNCHANGED <<res, x402Payment, koraCalls>>

\* lines 33-35: the route has no price: return next()
GatePassThrough(r) ==
  /\ nextCalls' = [nextCalls EXCEPT ![r] = @ + 1]
  /\ pc' = [pc EXCEPT ![r] = "routed"]
  /\ UNCHANGED <<res, x402Payment, koraCalls>>

\* GateChallenge setting the X-Payment-Required header only
GateChallengeOneHeader(r, priceConfig) ==
  LET paymentRequirements == PaymentRequirements(PAY_TO_ADDRESS, priceConfig)
      encoded == Base64Encode(JsonStringify(paymentRequirements))
  IN /\ SendWithHeaders(r, 402,
          SetHeader(res[r].headers, "X-Payment-Required", encoded),
          [kind |-> "error", error |-> "Payment Required",
           message |-> "This endpoint requires payment",
           paymentRequirements |-> paymentRequirements])
     /\ pc' = [pc EXCEPT ![r] = "done"]
     /\ UNCHANGED <<x402Payment, nextCalls, koraCalls>>

\* GateChallenge without the return of line 67: the request goes on to its
\* handler after the challenge was sent
GateChallengeNoReturn(r, priceConfig) ==
  LET paymentRequirements == PaymentRequirements(PAY_TO_ADDRESS, priceConfig)
      encoded == Base64Encode(JsonStringify(paymentRequirements))
  IN /\ SendWithHeaders(r, 402,
          SetHeader(SetHeader(res[r].headers, "X-Payment-Required", encoded),
                    "Payment-Required", encoded),
          [kind |-> "error", error |-> "Payment Required",
           message |-> "This endpoint requires payment",
           paymentRequirements |-> paymentRequirements])
     /\ nextCalls' = [nextCalls EXCEPT ![r] = @ + 1]
     /\ pc' = [pc EXCEPT ![r] = "routed"]
     /\ UNCHANGED <<x402Payment, koraCalls>>

\* lines 40-68: no payment header: 402 with the requirements in two headers
GateChallenge(r, priceConfig) ==
  LET paymentRequirements == PaymentRequirements(PAY_TO_ADDRESS, priceConfig)
      encoded == Base64Encode(JsonStringify(paymentRequirements))
  IN /\ SendWithHeaders(r, 402,
          SetHeader(SetHeader(res[r].headers, "X-Payment-Required", encoded),
                    "Payment-Required", encoded),
          [kind |-> "error", error |-> "Payment Required",
           message |-> "This endpoint requires payment",
           paymentRequirements |-> paymentRequirements])
     /\ pc' = [pc EXCEPT ![r] = "done"]
     /\ UNCHANGED <<x402Payment, nextCalls, koraCalls>>

\* lines 72-74 throw: the catch block, lines 127-133
GateCatch(r, message) ==
  /\ Send(r, 400, ErrorBody("Invalid payment", message))
  /\ pc' = [pc EXCEPT ![r] = "done"]
  /\ UNCHANGED <<x402Payment, nextCalls, koraCalls>>

\* the gate without the check of lines 78-83: the absent transaction is
\* submitted to the sponsor
GateMissingTransactionSubmitted(r) ==
  /\ koraCalls' = [koraCalls EXCEPT
                     ![r] = Append(@, KoraCall("x402Middleware", "signAndSendTransaction",
                                            Undefined))]
  /\ pc' = [pc EXCEPT ![r] = "settling"]
  /\ UNCHANGED <<res, x402Payment, nextCalls>>

\* lines 78-83: the payload holds no transaction
GateMissingTransaction(r) ==
  /\ Send(r, 400, ErrorBody("Invalid payment payload",
                            "Missing transaction in payment header"))
  /\ pc' = [pc EXCEPT ![r] = "done"]
  /\ UNCHANGED <<x402Payment, nextCalls, koraCalls>>

\* a gate that submits one settlement at a time
GateSubmitOneAtATime(r, transaction) ==
  /\ \A q \in DOMAIN pc : pc[q] /= "settling"
  /\ koraCalls' = [koraCalls EXCEPT
                     ![r] = Append(@, KoraCall("x402Middleware", "signAndSendTransaction",
                                            transaction))]
  /\ pc' = [pc EXCEPT ![r] = "settling"]
  /\ UNCHANGED <<res, x402Payment, nextCalls>>

\* a gate that remembers the evidence it has settled and lets a repetition
\* through without a second submission
GateSubmitUnlessSettled(r, transaction) ==
  IF \E q \in DOMAIN pc :
       /\ x402Payment[q] /= NoReceipt
       /\ \E i \in DOMAIN koraCalls[q] : koraCalls[q][i].transaction = transaction
  THEN /\ x402Payment' = [x402Payment EXCEPT ![r] =
             x402Payment[CHOOSE q \in DOMAIN pc :
                /\ x402Payment[q] /= NoReceipt
                /\ \E i \in DOMAIN koraCalls[q] : koraCalls[q][i].transaction = transaction]]
       /\ nextCalls' = [nextCalls EXCEPT ![r] = @ + 1]
       /\ pc' = [pc EXCEPT ![r] = "routed"]
       /\ UNCHANGED <<res, koraCalls>>
  ELSE /\ koraCalls' = [koraCalls EXCEPT
                          ![r] = Append(@, KoraCall("x402Middleware",
                                                 "signAndSendTransaction", transaction))]
       /\ pc' = [pc EXCEPT ![r] = "settling"]
       /\ UNCHANGED <<res, x402Payment, nextCalls>>

\* a gate that forwards the request while its submission is with the sponsor
GateSubmitForwardsAtOnce(r, transaction) ==
  /\ koraCalls' = [koraCalls EXCEPT
                     ![r] = Append(@, KoraCall("x402Middleware", "signAndSendTransaction",
                                            transaction))]
  /\ nextCalls' = [nextCalls EXCEPT ![r] = @ + 1]
  /\ pc' = [pc EXCEPT ![r] = "routed"]
  /\ UNCHANGED <<res, x402Payment>>

\* lines 86-101: the settlement submission is sent, the gate awaits the reply
GateSubmit(r, transaction) ==
  /\ koraCalls' = [koraCalls EXCEPT
                     ![r] = Append(@, KoraCall("x402Middleware", "signAndSendTransaction",
                                            transaction))]
  /\ pc' = [pc EXCEPT ![r] = "settling"]
  /\ UNCHANGED <<res, x402Payment, nextCalls>>

Gate(r) ==
  /\ installed
  /\ pc[r] = "received"
  /\ LET routeKey == RouteKey(req[r])
         paymentHeader == PaymentHeader(req[r])
         parsed == ParsePayment(paymentHeader)
     IN IF ~IsPriced(routeKey) THEN GatePassThrough(r)
        ELSE IF HeaderFalsy(paymentHeader) THEN GateChallenge(r, RoutesConfig[routeKey])
        ELSE IF parsed.threw THEN GateCatch(r, "Unexpected token in JSON")
        ELSE IF ~Truthy(parsed.transaction) THEN GateMissingTransaction(r)
        ELSE GateSubmit(r, parsed.transaction)
  /\ UNCHANGED <<installed, stalled, socket, rpcReply, assetVars, callVars, req, koraReply, now, issued>>

(***************************************************************************)
(* x402Middleware, lines 86-133: the sponsor's reply to the submission.    *)
(***************************************************************************)
\* GateSettled calling next() a second time after the first returned
GateSettledNextTwice(r, reply) ==
  /\ x402Payment' = [x402Payment EXCEPT ![r] =
        [kind |-> "receipt", transactionHash |-> reply.signature,
         network |-> "solana", amount |-> RoutesConfig[RouteKey(req[r])].usdCents]]
  /\ res' = [res EXCEPT ![r].headers =
        SetHeader(@, "X-Payment-Response",
                  Base64Encode(JsonStringify([success |-> TRUE,
                                              transactionHash |-> reply.signature])))]
  /\ nextCalls' = [nextCalls EXCEPT ![r] = @ + 2]
  /\ pc' = [pc EXCEPT ![r] = "routed"]
  /\ UNCHANGED koraCalls

\* a gate that gives up a request whose client has gone
GateSettledUnlessClosed(r, reply) ==
  IF socket[r].state = "closed"
  THEN /\ pc' = [pc EXCEPT ![r] = "done"]
       /\ UNCHANGED <<res, x402Payment, nextCalls, koraCalls>>
  ELSE /\ x402Payment' = [x402Payment EXCEPT ![r] =
             [kind |-> "receipt", transactionHash |-> reply.signature,
              network |-> "solana",
              amount |-> RoutesConfig[RouteKey(req[r])].usdCents]]
       /\ res' = [res EXCEPT ![r].headers =
             SetHeader(@, "X-Payment-Response",
                       Base64Encode(JsonStringify([success |-> TRUE,
                                                   transactionHash |-> reply.signature])))]
       /\ nextCalls' = [nextCalls EXCEPT ![r] = @ + 1]
       /\ pc' = [pc EXCEPT ![r] = "routed"]
       /\ UNCHANGED koraCalls

\* GateSettled without lines 121-124: no X-Payment-Response header
GateSettledNoHeader(r, reply) ==
  /\ x402Payment' = [x402Payment EXCEPT ![r] =
        [kind |-> "receipt", transactionHash |-> reply.signature,
         network |-> "solana", amount |-> RoutesConfig[RouteKey(req[r])].usdCents]]
  /\ nextCalls' = [nextCalls EXCEPT ![r] = @ + 1]
  /\ pc' = [pc EXCEPT ![r] = "routed"]
  /\ UNCHANGED <<res, koraCalls>>

\* lines 113-126: receipt, X-Payment-Response header, next()
GateSettled(r, reply) ==
  /\ x402Payment' = [x402Payment EXCEPT ![r] =
        [kind |-> "receipt", transactionHash |-> reply.signature,
         network |-> "solana", amount |-> RoutesConfig[RouteKey(req[r])].usdCents]]
  /\ res' = [res EXCEPT ![r].headers =
        SetHeader(@, "X-Payment-Response",
                  Base64Encode(JsonStringify([success |-> TRUE,
                                              transactionHash |-> reply.signature])))]
  /\ nextCalls' = [nextCalls EXCEPT ![r] = @ + 1]
  /\ pc' = [pc EXCEPT ![r] = "routed"]
  /\ UNCHANGED koraCalls

\* GateRejected without its return: control falls through to lines 113-126
GateRejectedFallsThrough(r, reply) == GateSettled(r, reply)

\* GateRejected answering as a server fault
GateRejectedAsServerError(r, reply) ==
  /\ Send(r, 500, ErrorBody("Payment failed",
                            OrElse(reply.error.message, "Kora rejected the transaction")))
  /\ pc' = [pc EXCEPT ![r] = "done"]
  /\ UNCHANGED <<x402Payment, nextCalls, koraCalls>>

\* lines 105-111: the reply carries an error: 402 with the sponsor's reason
GateRejected(r, reply) ==
  /\ Send(r, 402, ErrorBody("Payment failed",
                            OrElse(reply.error.message, "Kora rejected the transaction")))
  /\ pc' = [pc EXCEPT ![r] = "done"]
  /\ UNCHANGED <<x402Payment, nextCalls, koraCalls>>

\* a gate that submits again when the call threw (one retry)
GateSettleThrewRetry(r, reply) ==
  IF Len(koraCalls[r]) < 2
  THEN /\ koraCalls' = [koraCalls EXCEPT ![r] = Append(@, @[1])]
       /\ UNCHANGED <<res, pc, x402Payment, nextCalls>>
  ELSE /\ Send(r, 400, ErrorBody("Invalid payment", ThrownMessage(reply)))
       /\ pc' = [pc EXCEPT ![r] = "done"]
       /\ UNCHANGED <<x402Payment, nextCalls, koraCalls>>

\* the catch block, lines 127-133, entered from line 86 or 103
GateSettleThrew(r, reply) ==
  /\ Send(r, 400, ErrorBody("Invalid payment", ThrownMessage(reply)))
  /\ pc' = [pc EXCEPT ![r] = "done"]
  /\ UNCHANGED <<x402Payment, nextCalls, koraCalls>>

SettleReply(r, reply) ==
  /\ pc[r] = "settling"
  /\ koraReply' = [koraReply EXCEPT ![r] = reply]
  /\ IF SettleThrows(reply) THEN GateSettleThrew(r, reply)
     ELSE IF reply.error.present THEN GateRejected(r, reply)
     ELSE GateSettled(r, reply)
  /\ UNCHANGED <<installed, stalled, socket, rpcReply, assetVars, callVars, req, now, issued>>

(***************************************************************************)
(* Without the middleware (index.ts 56-58) the router is reached directly. *)
(***************************************************************************)
Dispatch(r) ==
  /\ ~installed
  /\ pc[r] = "received"
  /\ pc' = [pc EXCEPT ![r] = "routed"]
  /\ UNCHANGED <<installed, stalled, socket, rpcReply, assetVars, callVars, req, res, x402Payment, nextCalls, koraCalls,
                 koraReply, now, issued>>

(***************************************************************************)
(* The fee sponsor client (rpcCall and its callers): a call throws when    *)
(* the fetch rejects, the HTTP status is not ok, the body is not JSON, the *)
(* reply carries an error, or a member of an absent result is read.        *)
(***************************************************************************)
RpcReplies ==
  {[kind |-> k, signature |-> Undefined] :
      k \in {"fetchFailed", "httpNotOk", "notJson", "rpcError", "noResult"}}
  \cup {[kind |-> "result", signature |-> s] : s \in SwapSignatures \cup {Undefined}}

NoRpcReply == [kind |-> "none", signature |-> Undefined]

\* rpcCall throws, or result.signature is read of an undefined result
RpcThrows(reply) == reply.kind /= "result"

\* signAndSendWithKora: the signature member of the sponsor's result
SignAndSendWithKora(reply) == [signature |-> reply.signature]

(***************************************************************************)
(* Unsigned swap envelopes of the aggregator and what a client makes of    *)
(* them by signing.                                                        *)
(***************************************************************************)
SwapTxs == {"swapTxA", "swapTxB", "swapTxC", "swapTxD"}
SignedTxs == {"swapTxA.signed", "swapTxB.signed", "foreignTx.signed"}

\* the aggregator builds a different transaction for every request
EnvelopeFor(r) ==
  CASE r = 1 -> "swapTxA"
    [] r = 2 -> "swapTxB"
    [] r = 3 -> "swapTxC"
    [] OTHER -> "swapTxD"

\* the unsigned envelope a signed transaction was made from
EnvelopeOf(signed) ==
  CASE signed = "swapTxA.signed" -> "swapTxA"
    [] signed = "swapTxB.signed" -> "swapTxB"
    [] OTHER                     -> Undefined

\* WithReceipt reading one receipt slot shared by all requests
WithReceiptOfSharedSlot(r, body) ==
  LET holders == {q \in DOMAIN x402Payment : x402Payment[q] /= NoReceipt}
  IN IF holders /= {}
     THEN [k \in DOMAIN body \cup {"paymentReceipt"} |->
             IF k = "paymentReceipt"
             THEN x402Payment[CHOOSE q \in holders : \A q2 \in holders : q <= q2]
             ELSE body[k]]
     ELSE body

\* the response body with the receipt of the request, if it has one
\* (index.ts 140-142, 169-171, 192-194)
WithReceipt(r, body) ==
  IF x402Payment[r] /= NoReceipt
  THEN [k \in DOMAIN body \cup {"paymentReceipt"} |->
          IF k = "paymentReceipt" THEN x402Payment[r] ELSE body[k]]
  ELSE body

(***************************************************************************)
(* POST /gasless/execute (index.ts 179-200, executeGaslessSwap).           *)
(***************************************************************************)
\* lines 181-189: validation, then the signed envelope goes to the sponsor
ExecuteStart(r) ==
  /\ pc[r] = "routed"
  /\ MountedRoute(req[r]) = "POST /gasless/execute"
  /\ IF ~Truthy(req[r].signedTransaction)
     THEN /\ Send(r, 400, ErrorBody("Missing signedTransaction", Undefined))
          /\ pc' = [pc EXCEPT ![r] = "done"]
          /\ UNCHANGED koraCalls
     ELSE /\ koraCalls' = [koraCalls EXCEPT ![r] =
               Append(@, KoraCall("executeGaslessSwap", "signAndSendTransaction",
                                 req[r].signedTransaction))]
          /\ pc' = [pc EXCEPT ![r] = "executing"]
          /\ UNCHANGED res
  /\ UNCHANGED <<installed, stalled, socket, rpcReply, assetVars, callVars, req, x402Payment, nextCalls, koraReply, now, issued>>

\* the body res.json(result) sends for an executed swap
ExecutedBody(result) ==
  [kind |-> "executed", signature |-> result.signature,
   explorerUrl |-> result.signature]

ExecuteReplyAlways200(r, reply) ==
  /\ pc[r] = "executing"
  /\ rpcReply' = [rpcReply EXCEPT ![r] = reply]
  /\ Send(r, 200, WithReceipt(r, ExecutedBody(SignAndSendWithKora(reply))))
  /\ pc' = [pc EXCEPT ![r] = "done"]
  /\ UNCHANGED <<installed, stalled, socket, assetVars, callVars, req, x402Payment, nextCalls,
                 koraCalls, koraReply, now, issued>>

\* lines 187-199: the sponsor's reply: 200 with the signature, or 500
ExecuteReply(r, reply) ==
  /\ pc[r] = "executing"
  /\ rpcReply' = [rpcReply EXCEPT ![r] = reply]
  /\ IF RpcThrows(reply)
     THEN Send(r, 500, ErrorBody(reply.kind, Undefined))
     ELSE Send(r, 200, WithReceipt(r, ExecutedBody(SignAndSendWithKora(reply))))
  /\ pc' = [pc EXCEPT ![r] = "done"]
  /\ UNCHANGED <<installed, stalled, socket, assetVars, callVars, req, x402Payment, nextCalls, koraCalls, koraReply,
                 now, issued>>

(***************************************************************************)
(* POST /gasless/quote and POST /gasless/build (index.ts 120-177,          *)
(* getGaslessSwapQuote, buildGaslessSwapTransaction).                      *)
(***************************************************************************)
QuoteRoutes == {"POST /gasless/quote", "POST /gasless/build"}

\* index.ts 124, 154: !inputMint || !outputMint || !amount || !userWallet
QuoteFieldsMissing(rq) ==
  \/ ~TruthyString(rq.inputMint)
  \/ ~TruthyString(rq.outputMint)
  \/ rq.amount = NoAmount
  \/ ~Truthy(rq.userWallet)

QuoteStartUnvalidated(r) ==
  /\ pc[r] = "routed"
  /\ MountedRoute(req[r]) \in QuoteRoutes
  /\ koraCalls' = [koraCalls EXCEPT ![r] =
       Append(@, KoraCall("getKoraFeePayer", "getPayerSigner", Undefined))]
  /\ pc' = [pc EXCEPT ![r] = "awaitFeePayer"]
  /\ UNCHANGED <<installed, stalled, socket, rpcReply, assetVars, callVars, req, res, x402Payment,
                 nextCalls, koraReply, now, issued>>

\* lines 122-128 / 152-158, then the first await: getKoraFeePayer()
QuoteStart(r) ==
  /\ pc[r] = "routed"
  /\ MountedRoute(req[r]) \in QuoteRoutes
  /\ IF QuoteFieldsMissing(req[r])
     THEN /\ Send(r, 400, ErrorBody(
                 "Missing required fields: inputMint, outputMint, amount, userWallet",
                 Undefined))
          /\ pc' = [pc EXCEPT ![r] = "done"]
          /\ UNCHANGED koraCalls
     ELSE /\ koraCalls' = [koraCalls EXCEPT ![r] =
               Append(@, KoraCall("getKoraFeePayer", "getPayerSigner", Undefined))]
          /\ pc' = [pc EXCEPT ![r] = "awaitFeePayer"]
          /\ UNCHANGED res
  /\ UNCHANGED <<installed, stalled, socket, rpcReply, assetVars, callVars, req, x402Payment, nextCalls, koraReply, now, issued>>

\* an awaited call threw: the handler's catch block (index.ts 145-147)
HandlerCatch(r, message) ==
  /\ Send(r, 500, ErrorBody(message, Undefined))
  /\ pc' = [pc EXCEPT ![r] = "done"]

(***************************************************************************)
(* The aggregator client (part_003 176-358).  getTokenDecimals runs up to  *)
(* its await when it is called: a truthy cache entry is returned, a text   *)
(* that is no public key throws, anything else is looked up at the ledger. *)
(***************************************************************************)
\* TOKEN_DECIMALS[mint] = decimals, and the like on other maps
SetEntry(map, key, value) ==
  [k \in DOMAIN map \cup {key} |-> IF k = key THEN value ELSE map[k]]

\* the mint a call of getTokenDecimals was made for: "quote" is the call of
\* getJupiterQuote, "input" and "output" are those of Promise.all
SlotMint(rq, slot) == IF slot = "output" THEN rq.outputMint ELSE rq.inputMint

\* what a call getTokenDecimals(mint) does before it returns control; line
\* 194 is if (TOKEN_DECIMALS[mint]), which a stored 0 does not pass
DecimalsCall(cache, mint) ==
  IF mint \in DOMAIN cache /\ cache[mint] \notin {0, NotANumber} THEN "hit"
  ELSE IF IsPublicKey(mint) THEN "lookup" ELSE "throw"

\* getJupiterQuote from line 263 on, the decimals of the input being known:
\* the quote request (265-276) carries the amount in raw units
SendQuoteCall(r, inputDecimals) ==
  /\ aggregatorCalls' = [aggregatorCalls EXCEPT ![r] =
       Append(@, [endpoint |-> "jupiter quote", inputMint |-> req[r].inputMint,
                  outputMint |-> req[r].outputMint,
                  amount |-> AmountLamports(req[r].amount, inputDecimals)])]
  /\ pc' = [pc EXCEPT ![r] = "awaitJupiterQuote"]

\* gasless-swap.ts 50 / 113: const feeToken = request.feeToken || USDC_MINT
FeeToken(rq) == OrElse(rq.feeToken, USDC_MINT)

\* the fee estimate asked for the default fee asset whatever the request says
SendEstimateCallDefaultToken(r, transaction) ==
  /\ koraCalls' = [koraCalls EXCEPT ![r] =
       Append(@, [caller |-> "estimateFee", method |-> "estimateTransactionFee",
                  transaction |-> transaction, fee_token |-> USDC_MINT])]
  /\ pc' = [pc EXCEPT ![r] = "awaitEstimate"]

\* gasless-swap.ts 66 / 129: estimateFee(jupiterResult.transaction, feeToken),
\* which sends { transaction, fee_token: feeToken } to the sponsor
SendEstimateCall(r, transaction) ==
  /\ koraCalls' = [koraCalls EXCEPT ![r] =
       Append(@, [caller |-> "estimateFee", method |-> "estimateTransactionFee",
                  transaction |-> transaction, fee_token |-> FeeToken(req[r])])]
  /\ pc' = [pc EXCEPT ![r] = "awaitEstimate"]

\* buildJupiterSwapTransaction is entered and getJupiterQuote calls
\* getTokenDecimals(inputMint) (part_003 303, 262)
GetJupiterQuote(r) ==
  LET mint == req[r].inputMint
      called == [locals[r] EXCEPT !.lookups = Append(@, mint)]
      outcome == DecimalsCall(TOKEN_DECIMALS, mint)
  IN IF outcome = "hit"
     THEN /\ locals' = [locals EXCEPT ![r] =
               [called EXCEPT !.decimals = SetEntry(@, "quote", TOKEN_DECIMALS[mint])]]
          /\ SendQuoteCall(r, TOKEN_DECIMALS[mint])
          /\ UNCHANGED <<res, ledgerCalls>>
     ELSE IF outcome = "lookup"
     THEN /\ locals' = [locals EXCEPT ![r] = [called EXCEPT !.pending = {"quote"}]]
          /\ ledgerCalls' = [ledgerCalls EXCEPT ![r] = Append(@, mint)]
          /\ pc' = [pc EXCEPT ![r] = "awaitDecimals"]
          /\ UNCHANGED <<res, aggregatorCalls>>
     ELSE /\ locals' = [locals EXCEPT ![r] = called]
          /\ HandlerCatch(r, "Invalid public key input")
          /\ UNCHANGED <<ledgerCalls, aggregatorCalls>>

\* getKoraFeePayer() returned or threw; next: buildJupiterSwapTransaction
FeePayerReply(r, ok) ==
  /\ pc[r] = "awaitFeePayer"
  /\ IF ok
     THEN GetJupiterQuote(r)
     ELSE /\ HandlerCatch(r, "Kora RPC failed")
          /\ UNCHANGED <<ledgerCalls, aggregatorCalls, locals>>
  /\ UNCHANGED <<installed, stalled, socket, rpcReply, TOKEN_DECIMALS, callVars, req, x402Payment,
                 nextCalls, koraCalls, koraReply, now, issued>>

DecimalsSlots == {"quote", "input", "output"}

\* what connection.getParsedAccountInfo can answer: the parsed mint account,
\* a parsed account that is no mint, no parsed account, or a failed call
LedgerReplies == {"account", "otherAccount", "noAccount", "rejected"}

\* the ledger answers about an address what it holds at that address
LedgerCanReply(mint, reply) ==
  /\ reply = "account" => mint \in DOMAIN MintAccounts
  /\ reply = "otherAccount" => mint = TOKEN_ACCOUNT
  /\ reply = "noAccount" => mint \notin DOMAIN MintAccounts \cup {TOKEN_ACCOUNT}

\* line 199: mintInfo.value.data.parsed.info.decimals
ParsedDecimals(mint) ==
  IF mint \in DOMAIN MintAccounts THEN MintAccounts[mint] ELSE NotANumber

\* the message of what getTokenDecimals throws: line 204, or the rejection
LedgerThrownMessage(reply) ==
  IF reply = "noAccount" THEN "Could not get decimals for mint" ELSE "fetch failed"

LedgerReplyNoStore(r, slot, reply) ==
  /\ slot \in locals[r].pending
  /\ LedgerCanReply(SlotMint(req[r], slot), reply)
  /\ LET mint == SlotMint(req[r], slot)
         found == reply \in {"account", "otherAccount"}
         after == [locals[r] EXCEPT
                     !.pending = @ \ {slot},
                     !.decimals = IF found THEN SetEntry(@, slot, ParsedDecimals(mint))
                                  ELSE @]
     IN /\ locals' = [locals EXCEPT ![r] = after]
        /\ UNCHANGED TOKEN_DECIMALS
        /\ IF pc[r] = "done"
           THEN UNCHANGED <<res, pc, koraCalls, aggregatorCalls>>
           ELSE IF ~found
           THEN /\ HandlerCatch(r, LedgerThrownMessage(reply))
                /\ UNCHANGED <<koraCalls, aggregatorCalls>>
           ELSE IF pc[r] = "awaitDecimals"
           THEN /\ SendQuoteCall(r, ParsedDecimals(mint))
                /\ UNCHANGED <<res, koraCalls>>
           ELSE IF after.pending = {}
           THEN /\ SendEstimateCall(r, after.transaction)
                /\ UNCHANGED <<res, aggregatorCalls>>
           ELSE UNCHANGED <<res, pc, koraCalls, aggregatorCalls>>
  /\ UNCHANGED <<installed, stalled, socket, rpcReply, ledgerCalls, callVars, req, x402Payment,
                 nextCalls, koraReply, now, issued>>

\* LedgerReply on a cache that keeps the registered entries and the entry
\* stored last
LedgerReplyEvicts(r, slot, reply) ==
  /\ slot \in locals[r].pending
  /\ LedgerCanReply(SlotMint(req[r], slot), reply)
  /\ LET mint == SlotMint(req[r], slot)
         found == reply \in {"account", "otherAccount"}
         after == [locals[r] EXCEPT
                     !.pending = @ \ {slot},
                     !.decimals = IF found THEN SetEntry(@, slot, ParsedDecimals(mint))
                                  ELSE @]
     IN /\ locals' = [locals EXCEPT ![r] = after]
        /\ TOKEN_DECIMALS' = IF found
                             THEN SetEntry(InitialDecimals, mint, ParsedDecimals(mint))
                             ELSE TOKEN_DECIMALS
        /\ IF pc[r] = "done"
           THEN UNCHANGED <<res, pc, koraCalls, aggregatorCalls>>
           ELSE IF ~found
           THEN /\ HandlerCatch(r, LedgerThrownMessage(reply))
                /\ UNCHANGED <<koraCalls, aggregatorCalls>>
           ELSE IF pc[r] = "awaitDecimals"
           THEN /\ SendQuoteCall(r, ParsedDecimals(mint))
                /\ UNCHANGED <<res, koraCalls>>
           ELSE IF after.pending = {}
           THEN /\ SendEstimateCall(r, after.transaction)
                /\ UNCHANGED <<res, aggregatorCalls>>
           ELSE UNCHANGED <<res, pc, koraCalls, aggregatorCalls>>
  /\ UNCHANGED <<installed, stalled, socket, rpcReply, ledgerCalls, callVars, req, x402Payment,
                 nextCalls, koraReply, now, issued>>

\* LedgerReply storing 0 for an identifier whose lookup failed
LedgerReplyCachesFailure(r, slot, reply) ==
  /\ slot \in locals[r].pending
  /\ LedgerCanReply(SlotMint(req[r], slot), reply)
  /\ LET mint == SlotMint(req[r], slot)
         found == reply \in {"account", "otherAccount"}
         after == [locals[r] EXCEPT
                     !.pending = @ \ {slot},
                     !.decimals = IF found THEN SetEntry(@, slot, ParsedDecimals(mint))
                                  ELSE @]
     IN /\ locals' = [locals EXCEPT ![r] = after]
        /\ TOKEN_DECIMALS' = SetEntry(TOKEN_DECIMALS, mint,
                                      IF found THEN ParsedDecimals(mint) ELSE 0)
        /\ IF pc[r] = "done"
           THEN UNCHANGED <<res, pc, koraCalls, aggregatorCalls>>
           ELSE IF ~found
           THEN /\ HandlerCatch(r, LedgerThrownMessage(reply))
                /\ UNCHANGED <<koraCalls, aggregatorCalls>>
           ELSE IF pc[r] = "awaitDecimals"
           THEN /\ SendQuoteCall(r, ParsedDecimals(mint))
                /\ UNCHANGED <<res, koraCalls>>
           ELSE IF after.pending = {}
           THEN /\ SendEstimateCall(r, after.transaction)
                /\ UNCHANGED <<res, aggregatorCalls>>
           ELSE UNCHANGED <<res, pc, koraCalls, aggregatorCalls>>
  /\ UNCHANGED <<installed, stalled, socket, rpcReply, ledgerCalls, callVars, req, x402Payment,
                 nextCalls, koraReply, now, issued>>

\* part_003 198-204: the ledger answered a lookup of getTokenDecimals; the
\* decimals are stored and returned, or the call throws.  The caller goes on
\* when it has all it awaits; a lookup outliving its request only stores.
LedgerReply(r, slot, reply) ==
  /\ slot \in locals[r].pending
  /\ LedgerCanReply(SlotMint(req[r], slot), reply)
  /\ LET mint == SlotMint(req[r], slot)
         found == reply \in {"account", "otherAccount"}
         after == [locals[r] EXCEPT
                     !.pending = @ \ {slot},
                     !.decimals = IF found THEN SetEntry(@, slot, ParsedDecimals(mint))
                                  ELSE @]
     IN /\ locals' = [locals EXCEPT ![r] = after]
        /\ TOKEN_DECIMALS' = IF found
                             THEN SetEntry(TOKEN_DECIMALS, mint, ParsedDecimals(mint))
                             ELSE TOKEN_DECIMALS
        /\ IF pc[r] = "done"
           THEN UNCHANGED <<res, pc, koraCalls, aggregatorCalls>>
           ELSE IF ~found
           THEN /\ HandlerCatch(r, LedgerThrownMessage(reply))
                /\ UNCHANGED <<koraCalls, aggregatorCalls>>
           ELSE IF pc[r] = "awaitDecimals"
           THEN /\ SendQuoteCall(r, ParsedDecimals(mint))
                /\ UNCHANGED <<res, koraCalls>>
           ELSE IF after.pending = {}
           THEN /\ SendEstimateCall(r, after.transaction)
                /\ UNCHANGED <<res, aggregatorCalls>>
           ELSE UNCHANGED <<res, pc, koraCalls, aggregatorCalls>>
  /\ UNCHANGED <<installed, stalled, socket, rpcReply, ledgerCalls, callVars, req, x402Payment,
                 nextCalls, koraReply, now, issued>>

\* JupiterQuoteReply asking the swap endpoint for an envelope whether or not
\* the quote came back
JupiterQuoteReplyBuildsAnyway(r, ok) ==
  /\ pc[r] = "awaitJupiterQuote"
  /\ aggregatorCalls' = [aggregatorCalls EXCEPT ![r] =
       Append(@, [aggregatorCalls[r][Len(aggregatorCalls[r])]
                    EXCEPT !.endpoint = "jupiter swap"])]
  /\ IF ok
     THEN /\ pc' = [pc EXCEPT ![r] = "awaitJupiter"]
          /\ UNCHANGED res
     ELSE HandlerCatch(r, "Jupiter quote failed")
  /\ UNCHANGED <<installed, stalled, socket, rpcReply, TOKEN_DECIMALS, ledgerCalls, locals, callVars,
                 req, x402Payment, nextCalls, koraCalls, koraReply, now, issued>>

\* part_003 276-283, 316: the quote came back, or the call threw; next await:
\* the swap endpoint
JupiterQuoteReply(r, ok) ==
  /\ pc[r] = "awaitJupiterQuote"
  /\ IF ok
     THEN /\ aggregatorCalls' = [aggregatorCalls EXCEPT ![r] =
               Append(@, [aggregatorCalls[r][Len(aggregatorCalls[r])]
                            EXCEPT !.endpoint = "jupiter swap"])]
          /\ pc' = [pc EXCEPT ![r] = "awaitJupiter"]
          /\ UNCHANGED res
     ELSE /\ HandlerCatch(r, "Jupiter quote failed")
          /\ UNCHANGED aggregatorCalls
  /\ UNCHANGED <<installed, stalled, socket, rpcReply, TOKEN_DECIMALS, ledgerCalls, locals, callVars,
                 req, x402Payment, nextCalls, koraCalls, koraReply, now, issued>>

\* part_003 328-339: the swap endpoint returned an envelope or the call threw;
\* then Promise.all of getTokenDecimals(inputMint), getTokenDecimals(outputMint)
\* and, when nothing is awaited, estimateFee(jupiterResult.transaction, feeToken)
JupiterReply(r, ok, envelope) ==
  /\ pc[r] = "awaitJupiter"
  /\ envelope = EnvelopeFor(r)
  /\ IF ~ok
     THEN /\ HandlerCatch(r, "Jupiter swap build failed")
          /\ UNCHANGED <<koraCalls, ledgerCalls, locals>>
     ELSE LET slots == <<"input", "output">>
              outcome == [i \in 1..2 |->
                            DecimalsCall(TOKEN_DECIMALS, SlotMint(req[r], slots[i]))]
              hits == {i \in 1..2 : outcome[i] = "hit"}
              asked == SelectSeq(slots, LAMBDA sl :
                         DecimalsCall(TOKEN_DECIMALS, SlotMint(req[r], sl)) = "lookup")
              known == [sl \in {slots[i] : i \in hits} |->
                          TOKEN_DECIMALS[SlotMint(req[r], sl)]]
          IN /\ locals' = [locals EXCEPT ![r] =
                  [lookups |-> @.lookups \o <<req[r].inputMint, req[r].outputMint>>,
                   decimals |-> [k \in DOMAIN @.decimals \cup DOMAIN known |->
                                   IF k \in DOMAIN known THEN known[k]
                                   ELSE @.decimals[k]],
                   pending |-> {asked[i] : i \in DOMAIN asked},
                   transaction |-> envelope]]
             /\ ledgerCalls' = [ledgerCalls EXCEPT ![r] =
                  @ \o [i \in DOMAIN asked |-> SlotMint(req[r], asked[i])]]
             /\ IF \E i \in 1..2 : outcome[i] = "throw"
                THEN /\ HandlerCatch(r, "Invalid public key input")
                     /\ UNCHANGED koraCalls
                ELSE IF asked = <<>>
                THEN /\ SendEstimateCall(r, envelope)
                     /\ UNCHANGED res
                ELSE /\ pc' = [pc EXCEPT ![r] = "awaitDecimalsAll"]
                     /\ UNCHANGED <<res, koraCalls>>
  /\ UNCHANGED <<installed, stalled, socket, rpcReply, TOKEN_DECIMALS, aggregatorCalls, callVars, req,
                 x402Payment, nextCalls, koraReply, now, issued>>

\* the envelope the pending fee estimate was asked for
PendingEnvelope(r) == koraCalls[r][Len(koraCalls[r])].transaction

\* the quote of gasless-swap.ts 68-82 / 131-145
QuoteResponse(feeToken, expiresAt) ==
  [kind |-> "quote", gasFee |-> [token |-> feeToken], expiresAt |-> expiresAt]

EstimateReplyFromArrival(r, ok) ==
  /\ pc[r] = "awaitEstimate"
  /\ IF ok
     THEN LET quote == QuoteResponse(FeeToken(req[r]), req[r].receivedAt + QuoteTtlMs)
          IN IF MountedRoute(req[r]) = "POST /gasless/build"
             THEN /\ Send(r, 200, WithReceipt(r,
                        [kind |-> "build", transaction |-> PendingEnvelope(r),
                         quote |-> quote]))
                  /\ issued' = issued \cup {[transaction |-> PendingEnvelope(r),
                                             expiresAt |-> quote.expiresAt]}
                  /\ pc' = [pc EXCEPT ![r] = "done"]
             ELSE /\ Send(r, 200, WithReceipt(r, quote))
                  /\ pc' = [pc EXCEPT ![r] = "done"]
                  /\ UNCHANGED issued
     ELSE /\ HandlerCatch(r, "Kora RPC failed")
          /\ UNCHANGED issued
  /\ UNCHANGED <<installed, stalled, socket, rpcReply, assetVars, callVars, req, x402Payment, nextCalls, koraCalls, koraReply, now>>

\* estimateFee() returned or threw; on return the quote (and for build the
\* envelope) is the response
EstimateReply(r, ok) ==
  /\ pc[r] = "awaitEstimate"
  /\ IF ok
     THEN LET quote == QuoteResponse(FeeToken(req[r]), now + QuoteTtlMs)
          IN IF MountedRoute(req[r]) = "POST /gasless/build"
             THEN /\ Send(r, 200, WithReceipt(r,
                        [kind |-> "build", transaction |-> PendingEnvelope(r),
                         quote |-> quote]))
                  /\ issued' = issued \cup {[transaction |-> PendingEnvelope(r),
                                             expiresAt |-> quote.expiresAt]}
                  /\ pc' = [pc EXCEPT ![r] = "done"]
             ELSE /\ Send(r, 200, WithReceipt(r, quote))
                  /\ pc' = [pc EXCEPT ![r] = "done"]
                  /\ UNCHANGED issued
     ELSE /\ HandlerCatch(r, "Kora RPC failed")
          /\ UNCHANGED issued
  /\ UNCHANGED <<installed, stalled, socket, rpcReply, assetVars, callVars, req, x402Payment, nextCalls, koraCalls, koraReply, now>>

(***************************************************************************)
(* POST /actions/swap (swap.ts 81-126) and the free GET routes.            *)
(***************************************************************************)
\* swap.ts 90: !inputMint || !outputMint || !amount
SwapFieldsMissing(rq) ==
  \/ ~TruthyString(rq.inputMint)
  \/ ~TruthyString(rq.outputMint)
  \/ rq.amount = NoAmount

\* swap.ts 83-110 and part_003 94-111: validation, symbol resolution, then the
\* request to the actions endpoint
SwapStart(r) ==
  /\ pc[r] = "routed"
  /\ MountedRoute(req[r]) = "POST /actions/swap"
  /\ IF ~Truthy(req[r].account)
     THEN /\ Send(r, 400, ErrorBody("Missing account in request body", Undefined))
          /\ pc' = [pc EXCEPT ![r] = "done"]
          /\ UNCHANGED aggregatorCalls
     ELSE IF SwapFieldsMissing(req[r])
     THEN /\ Send(r, 400, ErrorBody(
                 "Missing required query parameters: inputMint, outputMint, amount",
                 Undefined))
          /\ pc' = [pc EXCEPT ![r] = "done"]
          /\ UNCHANGED aggregatorCalls
     ELSE /\ aggregatorCalls' = [aggregatorCalls EXCEPT ![r] =
               Append(@, [endpoint |-> "raydium tx",
                          inputMint |-> ResolveMint(req[r].inputMint),
                          outputMint |-> ResolveMint(req[r].outputMint),
                          amount |-> req[r].amount])]
          /\ pc' = [pc EXCEPT ![r] = "awaitSwap"]
          /\ UNCHANGED res
  /\ UNCHANGED <<installed, stalled, socket, rpcReply, TOKEN_DECIMALS, ledgerCalls, locals, callVars,
                 req, x402Payment, nextCalls, koraCalls, koraReply, now, issued>>

\* swap.ts 104-125: the transaction is returned, or the catch block answers 500
SwapReply(r, ok, envelope) ==
  /\ pc[r] = "awaitSwap"
  /\ envelope = EnvelopeFor(r)
  /\ IF ok
     THEN /\ Send(r, 200, [kind |-> "transaction", transaction |-> envelope])
          /\ pc' = [pc EXCEPT ![r] = "done"]
     ELSE HandlerCatch(r, "Swap build failed")
  /\ UNCHANGED <<installed, stalled, socket, rpcReply, assetVars, callVars, req, x402Payment, nextCalls, koraCalls, koraReply,
                 now, issued>>

\* index.ts 61-118, swap.ts GET: the free routes answer 200
FreeHandler(r) ==
  /\ pc[r] = "routed"
  /\ MountedRoute(req[r]) \in FreeRouteKeys
  /\ Send(r, 200, [kind |-> "descriptor"])
  /\ pc' = [pc EXCEPT ![r] = "done"]
  /\ UNCHANGED <<installed, stalled, socket, rpcReply, assetVars, callVars, req, x402Payment, nextCalls, koraCalls, koraReply,
                 now, issued>>

(***************************************************************************)
(* Time passes.                                                            *)
(***************************************************************************)
TickMs == QuoteTtlMs \div 2

Tick ==
  /\ now < MaxTicks * TickMs
  /\ now' = now + TickMs
  /\ UNCHANGED <<installed, stalled, socket, rpcReply, assetVars, callVars, req, pc, res, x402Payment, nextCalls, koraCalls,
                 koraReply, issued>>

(***************************************************************************)
(* The requests a client may send.                                         *)
(***************************************************************************)
\* (X-Payment, Payment-Signature) pairs sent to a priced route;
\* MalformedHeaders are header texts that decode to no transaction,
\* EvidenceHeaders header texts that decode to a transaction
HeaderPairs ==
  LET MalformedHeaders ==
        {TextHeader("garbage", Undefined, Undefined),
         TextHeader("null", Undefined, Undefined),
         TextHeader("scalar", Undefined, Undefined),
         TextHeader("object", Undefined, Undefined),
         TextHeader("object", EmptyString, Undefined)}
      EvidenceHeaders ==
        {TextHeader("object", t, Undefined) : t \in PaymentTxs}
        \cup {TextHeader("object", Undefined, "txPayExecutePrice"),
              TextHeader("object", "txPayOtherRecipient", "txPayExecutePrice")}
  IN
  {<<x, AbsentHeader>> : x \in {AbsentHeader, EmptyHeader} \cup MalformedHeaders
                                  \cup EvidenceHeaders}
  \cup {<<AbsentHeader, p>> :
          p \in {EmptyHeader, TextHeader("garbage", Undefined, Undefined),
                 TextHeader("object", Undefined, "txPayLess")}}
  \cup {<<TextHeader("garbage", Undefined, Undefined),
          TextHeader("object", Undefined, "txPayExecutePrice")>>}

\* (X-Payment, Payment-Signature) pairs sent along with a body the handler
\* rejects, or to a free route
FewHeaderPairs ==
  {<<AbsentHeader, AbsentHeader>>,
   <<TextHeader("garbage", Undefined, Undefined), AbsentHeader>>,
   <<TextHeader("object", "txPayExecutePrice", Undefined), AbsentHeader>>,
   <<AbsentHeader, TextHeader("object", Undefined, "txPayLess")>>}

\* a body the handler of a route accepts (EmptyBody is one it rejects)
GoodBody(route) ==
  IF route = "POST /gasless/execute"
  THEN Body("swapTxA.signed", Undefined, NoString, NoString, NoAmount, Undefined)
  ELSE Body(Undefined, "userWallet", SOL_MINT, UNSEEN_MINT, Decimal(15, 1),
            "userWallet")

GateRequests ==
  {Request(route, h[1], h[2], GoodBody(route)) :
     route \in PricedRouteKeys, h \in HeaderPairs}
  \cup {Request(route, h[1], h[2], EmptyBody) :
          route \in PricedRouteKeys \cup FreeRouteKeys, h \in FewHeaderPairs}

(***************************************************************************)
(* The gate specification: the middleware is installed.                    *)
(***************************************************************************)
InitServer(reqs, gateInstalled) ==
  /\ installed = gateInstalled
  /\ req = [r \in reqs |-> NoRequest]
  /\ pc = [r \in reqs |-> "idle"]
  /\ res = [r \in reqs |-> Unsent]
  /\ x402Payment = [r \in reqs |-> NoReceipt]
  /\ nextCalls = [r \in reqs |-> 0]
  /\ koraCalls = [r \in reqs |-> <<>>]
  /\ koraReply = [r \in reqs |-> NoReply]
  /\ now = 0
  /\ issued = {}
  /\ rpcReply = [r \in reqs |-> NoRpcReply]
  /\ TOKEN_DECIMALS = InitialDecimals
  /\ ledgerCalls = [r \in reqs |-> <<>>]
  /\ aggregatorCalls = [r \in reqs |-> <<>>]
  /\ locals = [r \in reqs |-> NoLocals]
  /\ socket = [r \in reqs |-> [state |-> "open", settling |-> FALSE]]

InitOn(reqs, gateInstalled) ==
  /\ InitServer(reqs, gateInstalled)
  /\ stalled = {}
  /\ arg = NotApplied
  /\ ret = NotApplied

Init == InitOn(1..NumReq, TRUE)

Next ==
  \/ \E r \in DOMAIN pc, rq \in GateRequests : Arrive(r, rq)
  \/ \E r \in DOMAIN pc : Gate(r)
  \/ \E r \in DOMAIN pc, reply \in KoraReplies : SettleReply(r, reply)
  \/ \E r \in DOMAIN pc : ExecuteStart(r)
  \/ \E r \in DOMAIN pc, reply \in RpcReplies : ExecuteReply(r, reply)
  \/ \E r \in DOMAIN pc : QuoteStart(r)
  \/ \E r \in DOMAIN pc, ok \in BOOLEAN : FeePayerReply(r, ok)
  \/ \E r \in DOMAIN pc, slot \in DecimalsSlots, reply \in LedgerReplies :
       LedgerReply(r, slot, reply)
  \/ \E r \in DOMAIN pc, ok \in BOOLEAN : JupiterQuoteReply(r, ok)
  \/ \E r \in DOMAIN pc, ok \in BOOLEAN, e \in SwapTxs : JupiterReply(r, ok, e)
  \/ \E r \in DOMAIN pc, ok \in BOOLEAN : EstimateReply(r, ok)
  \/ \E r \in DOMAIN pc : SwapStart(r)
  \/ \E r \in DOMAIN pc, ok \in BOOLEAN, e \in SwapTxs : SwapReply(r, ok, e)
  \/ \E r \in DOMAIN pc : FreeHandler(r)

Spec == Init /\ [][Next]_vars

(***************************************************************************)
(* The swap workflow specification: quote, build and execute requests with *)
(* the clock running; the gate is not installed (X402_ENABLED unset).      *)
(***************************************************************************)
SwapRequests ==
  {Request(route, AbsentHeader, AbsentHeader, b) :
     route \in QuoteRoutes, b \in {GoodBody("POST /gasless/build"), EmptyBody}}
  \cup {Request("POST /gasless/execute", AbsentHeader, AbsentHeader,
                 Body(t, Undefined, NoString, NoString, NoAmount, Undefined)) :
          t \in SignedTxs \cup {Undefined}}

InitSwap == InitOn(1..NumSwapReq, FALSE)

NextSwap ==
  \/ \E r \in DOMAIN pc, rq \in SwapRequests : Arrive(r, rq)
  \/ \E r \in DOMAIN pc : Dispatch(r)
  \/ \E r \in DOMAIN pc : ExecuteStart(r)
  \/ \E r \in DOMAIN pc, reply \in RpcReplies : ExecuteReply(r, reply)
  \/ \E r \in DOMAIN pc : QuoteStart(r)
  \/ \E r \in DOMAIN pc, ok \in BOOLEAN : FeePayerReply(r, ok)
  \/ \E r \in DOMAIN pc, slot \in DecimalsSlots, reply \in LedgerReplies :
       LedgerReply(r, slot, reply)
  \/ \E r \in DOMAIN pc, ok \in BOOLEAN : JupiterQuoteReply(r, ok)
  \/ \E r \in DOMAIN pc, ok \in BOOLEAN, e \in SwapTxs : JupiterReply(r, ok, e)
  \/ \E r \in DOMAIN pc, ok \in BOOLEAN : EstimateReply(r, ok)
  \/ Tick

SpecSwap == InitSwap /\ [][NextSwap]_vars

(***************************************************************************)
(* The asset specification: swap, quote, build and execute requests that   *)
(* differ in the assets they name and the fields they lack, two at a time; *)
(* the gate is not installed.                                              *)
(***************************************************************************)
SOL_SYMBOL == <<"S", "O", "L">>
usdc_symbol == <<"u", "s", "d", "c">>

\* AssetPairs are the (inputMint, outputMint) of quote and build requests,
\* QuoteBodiesLacking the quote and build bodies that lack required fields,
\* SwapBodies the bodies and query parameters of POST /actions/swap
AssetRequests ==
  LET AssetPairs ==
        {<<SOL_MINT, USDC_TOKEN_MINT>>, <<UNSEEN_MINT, USDC_TOKEN_MINT>>,
         <<SOL_MINT, UNSEEN_MINT>>, <<NFT_MINT, USDC_TOKEN_MINT>>,
         <<NOT_A_MINT, USDC_TOKEN_MINT>>, <<SOL_SYMBOL, USDC_TOKEN_MINT>>,
         <<SOL_MINT, usdc_symbol>>}
      QuoteBodiesLacking ==
        {Body(Undefined, Undefined, NoString, USDC_TOKEN_MINT, Decimal(15, 1),
              "userWallet"),
         Body(Undefined, Undefined, SOL_MINT, <<>>, Decimal(15, 1), "userWallet"),
         Body(Undefined, Undefined, SOL_MINT, USDC_TOKEN_MINT, NoAmount, "userWallet"),
         Body(Undefined, Undefined, SOL_MINT, USDC_TOKEN_MINT, Decimal(15, 1),
              Undefined),
         Body(Undefined, Undefined, NoString, NoString, NoAmount, EmptyString)}
      SwapBodies ==
        {Body(Undefined, "userWallet", <<"s", "o", "l">>, <<"U", "S", "D", "C">>,
              Decimal(15, 1), Undefined),
         Body(Undefined, "userWallet", UNSEEN_MINT, usdc_symbol, Decimal(15, 1),
              Undefined),
         Body(Undefined, Undefined, SOL_SYMBOL, usdc_symbol, Decimal(15, 1), Undefined),
         Body(Undefined, Undefined, SOL_SYMBOL, usdc_symbol, NoAmount, Undefined),
         Body(Undefined, "userWallet", NoString, usdc_symbol, Decimal(15, 1),
              Undefined),
         Body(Undefined, "userWallet", SOL_SYMBOL, usdc_symbol, NoAmount, Undefined)}
  IN
  {Request("POST /gasless/build", AbsentHeader, AbsentHeader,
           Body(Undefined, Undefined, p[1], p[2], Decimal(15, 1), "userWallet")) :
     p \in AssetPairs}
  \cup {Request("POST /gasless/quote", AbsentHeader, AbsentHeader,
           Body(Undefined, Undefined, p[1], p[2], Decimal(15, 1), "userWallet")) :
          p \in {<<NFT_MINT, USDC_TOKEN_MINT>>, <<SOL_SYMBOL, USDC_TOKEN_MINT>>,
                 <<TOKEN_ACCOUNT, USDC_TOKEN_MINT>>}}
  \cup {[Request(route, AbsentHeader, AbsentHeader,
            Body(Undefined, Undefined, SOL_MINT, USDC_TOKEN_MINT, Decimal(1, 1),
                 "userWallet")) EXCEPT !.feeToken = t] :
          route \in QuoteRoutes, t \in {Undefined, EmptyString, OTHER_MINT}}
  \cup {Request(route, AbsentHeader, AbsentHeader, b) :
          route \in QuoteRoutes, b \in QuoteBodiesLacking}
  \cup {Request("POST /actions/swap", AbsentHeader, AbsentHeader, b) : b \in SwapBodies}
  \cup {Request("POST /gasless/execute", AbsentHeader, AbsentHeader,
                Body(t, Undefined, NoString, NoString, NoAmount, Undefined)) :
          t \in {"swapTxA.signed", Undefined, EmptyString}}

InitAssets == InitOn(1..NumAssetReq, FALSE)

NextAssets ==
  \/ \E r \in DOMAIN pc, rq \in AssetRequests : Arrive(r, rq)
  \/ \E r \in DOMAIN pc : Dispatch(r)
  \/ \E r \in DOMAIN pc : ExecuteStart(r)
  \/ \E r \in DOMAIN pc, reply \in RpcReplies : ExecuteReply(r, reply)
  \/ \E r \in DOMAIN pc : QuoteStart(r)
  \/ \E r \in DOMAIN pc, ok \in BOOLEAN : FeePayerReply(r, ok)
  \/ \E r \in DOMAIN pc, slot \in DecimalsSlots, reply \in LedgerReplies :
       LedgerReply(r, slot, reply)
  \/ \E r \in DOMAIN pc, ok \in BOOLEAN : JupiterQuoteReply(r, ok)
  \/ \E r \in DOMAIN pc, ok \in BOOLEAN, e \in SwapTxs : JupiterReply(r, ok, e)
  \/ \E r \in DOMAIN pc, ok \in BOOLEAN : EstimateReply(r, ok)
  \/ \E r \in DOMAIN pc : SwapStart(r)
  \/ \E r \in DOMAIN pc, ok \in BOOLEAN, e \in SwapTxs : SwapReply(r, ok, e)

SpecAssets == InitAssets /\ [][NextAssets]_vars

(***************************************************************************)
(* Symbol resolution applied on its own to one text.                       *)
(***************************************************************************)
\* the texts that differ from sym in the case of letters only
CaseVariants(sym) ==
  LET ToLowerChar(c) ==
        IF \E i \in DOMAIN UpperCaseLetters : UpperCaseLetters[i] = c
        THEN LowerCaseLetters[CHOOSE i \in DOMAIN UpperCaseLetters :
                                UpperCaseLetters[i] = c]
        ELSE c
  IN {s \in [DOMAIN sym -> {sym[i] : i \in DOMAIN sym}
                           \cup {ToLowerChar(sym[i]) : i \in DOMAIN sym}] :
        \A i \in DOMAIN sym : s[i] \in {sym[i], ToLowerChar(sym[i])}}

\* the text is any case variant of a registered symbol or one of OtherTexts,
\* texts that are no registered symbol in any case
InitResolve ==
  LET OtherTexts ==
        {SOL_MINT, USDC_TOKEN_MINT, USDT_MINT, RAY_MINT, JUP_MINT, UNSEEN_MINT,
         NFT_MINT, NOT_A_MINT, <<>>, <<"S", "O">>, <<"s", "o", "l", "x">>,
         <<"S", "0", "L">>, <<"u", "s", "d">>, <<"S", "O", "1", "1", "1">>,
         <<"J", "U", "P", "Y", "I">>, <<"x">>, <<"S", "O", "L", " ">>}
      ResolveInputs ==
        UNION {CaseVariants(sym) : sym \in DOMAIN tokens} \cup OtherTexts
  IN /\ InitServer({}, FALSE)
     /\ arg \in {[kind |-> "string", value |-> t] : t \in ResolveInputs}
     /\ ret = NotApplied
     /\ stalled = {}

\* swap.ts 97: config.getTokenMint(inputMint) || inputMint
ApplyResolve ==
  /\ ret = NotApplied
  /\ ret' = [kind |-> "returned", value |-> ResolveMint(arg.value)]
  /\ UNCHANGED <<installed, stalled, socket, req, pc, res, x402Payment, nextCalls, koraCalls,
                 koraReply, now, issued, rpcReply, assetVars, arg>>

SpecResolve == InitResolve /\ [][ApplyResolve]_vars

(***************************************************************************)
(* Amount conversion applied on its own: a decimal amount is converted to  *)
(* raw units of an asset and the raw units back to a decimal amount.       *)
(***************************************************************************)
\* amounts of at most MaxUnits units of their last fraction digit, with no
\* more fraction digits than the asset has
InitAmount ==
  LET AmountDecimals == {0, 2, 6, 9}
      AmountInputs ==
        {[amount |-> Decimal(n, k), decimals |-> d] :
           n \in 0..MaxUnits, k \in 0..9, d \in AmountDecimals}
  IN /\ InitServer({}, FALSE)
     /\ arg \in {a \in AmountInputs : a.amount.digits <= a.decimals
                                       /\ a.decimals - a.amount.digits <= 7}
     /\ ret = NotApplied
     /\ stalled = {}

\* part_003 263 and 341: the amount to raw units, the raw units to an amount
ApplyConvert ==
  /\ ret = NotApplied
  /\ ret' = LET raw == AmountLamports(arg.amount, arg.decimals)
            IN [kind |-> "returned", raw |-> raw,
                human |-> HumanAmount(raw, arg.decimals)]
  /\ UNCHANGED <<installed, stalled, socket, req, pc, res, x402Payment, nextCalls, koraCalls,
                 koraReply, now, issued, rpcReply, assetVars, arg>>

SpecAmount == InitAmount /\ [][ApplyConvert]_vars

(***************************************************************************)
(* The route description applied on its own to the venue labels of a route *)
(* plan (part_003 344-357).  A text is the sequence of its characters; a   *)
(* character outside ASCII is written as its code point.                   *)
(***************************************************************************)
\* part_003 345-348 and 356: map to the labels, filter((v, i, a) =>
\* a.indexOf(v) === i), join with the separator of line 348, || 'Direct'.
\* The separator is the text between the quotes of line 348: a space, the
\* characters U+00E2 U+2020 U+2019 and a space.
RouteDescription(labels) ==
  LET indexOf(a, v) ==
        IF \E i \in DOMAIN a : a[i] = v
        THEN (CHOOSE i \in DOMAIN a : a[i] = v /\ \A j \in 1..(i - 1) : a[j] /= v) - 1
        ELSE -1
      filtered[n \in 0..Len(labels)] ==
        IF n = 0 THEN <<>>
        ELSE IF indexOf(labels, labels[n]) = n - 1
        THEN Append(filtered[n - 1], labels[n])
        ELSE filtered[n - 1]
      unique == filtered[Len(labels)]
      separator == <<" ", "U+00E2", "U+2020", "U+2019", " ">>
      joined[n \in 0..Len(unique)] ==
        IF n = 0 THEN <<>>
        ELSE IF n = 1 THEN unique[1]
        ELSE joined[n - 1] \o separator \o unique[n]
      route == joined[Len(unique)]
  IN IF route /= <<>> THEN route ELSE <<"D", "i", "r", "e", "c", "t">>

\* the route plan holds at most MaxLabels hops over three venues
InitRoute ==
  LET venues == {<<"O", "r", "c", "a">>, <<"R", "a", "y">>, <<"M">>}
      plans == UNION {[1..n -> venues] : n \in 0..MaxLabels}
  IN /\ InitServer({}, FALSE)
     /\ arg \in {[kind |-> "labels", value |-> p] : p \in plans}
     /\ ret = NotApplied
     /\ stalled = {}

ApplyRoute ==
  /\ ret = NotApplied
  /\ ret' = [kind |-> "returned", value |-> RouteDescription(arg.value)]
  /\ UNCHANGED <<installed, stalled, socket, req, pc, res, x402Payment, nextCalls, koraCalls,
                 koraReply, now, issued, rpcReply, assetVars, arg>>

SpecRoute == InitRoute /\ [][ApplyRoute]_vars

(***************************************************************************)
(* The client specification: the gate is installed and two clients send    *)
(* requests, the second possibly a repetition of the first; a client may   *)
(* close its connection while its request is being served, and the         *)
(* upstream calls made for one of the requests may never be answered.      *)
(***************************************************************************)
\* the client of r closes the connection: no statement of the middleware or
\* of a handler subscribes to it (x402-middleware.ts 28-134 has no listener
\* on req or res and passes no signal to fetch)
Disconnect(r) ==
  /\ pc[r] \notin {"idle", "done"}
  /\ socket[r].state = "open"
  /\ socket' = [socket EXCEPT ![r] = [state |-> "closed",
                                         settling |-> pc[r] = "settling"]]
  /\ UNCHANGED <<installed, stalled, req, pc, res, x402Payment, nextCalls, koraCalls,
                 koraReply, now, issued, rpcReply, assetVars, callVars>>

InitClients ==
  /\ InitServer(1..NumClientReq, TRUE)
  /\ arg = NotApplied
  /\ ret = NotApplied
  /\ stalled \in {{r} : r \in 1..NumClientReq}

\* a step of the server for request r: the gate, a handler, or the arrival
\* of the answer to a call made for r
ServeStep(r) ==
  \/ Gate(r)
  \/ \E reply \in KoraReplies : SettleReply(r, reply)
  \/ ExecuteStart(r)
  \/ \E reply \in RpcReplies : ExecuteReply(r, reply)
  \/ QuoteStart(r)
  \/ \E ok \in BOOLEAN : FeePayerReply(r, ok)
  \/ \E slot \in DecimalsSlots, reply \in LedgerReplies : LedgerReply(r, slot, reply)
  \/ \E ok \in BOOLEAN : JupiterQuoteReply(r, ok)
  \/ \E ok \in BOOLEAN, e \in SwapTxs : JupiterReply(r, ok, e)
  \/ \E ok \in BOOLEAN : EstimateReply(r, ok)
  \/ FreeHandler(r)

NextClients ==
  LET paid == TextHeader("object", "txPayExecutePrice", Undefined)
      ClientRequests ==
        {Request("POST /gasless/execute", h, AbsentHeader,
                 GoodBody("POST /gasless/execute")) :
           h \in {paid, AbsentHeader, TextHeader("garbage", Undefined, Undefined),
                  TextHeader("object", Undefined, Undefined)}}
        \cup {Request("POST /gasless/quote", paid, AbsentHeader,
                      Body(Undefined, Undefined, SOL_MINT, UNSEEN_MINT, Decimal(15, 1),
                           "userWallet")),
              Request("GET /gasless/status", AbsentHeader, AbsentHeader, EmptyBody)}
  IN \/ \E r \in DOMAIN pc, rq \in ClientRequests : Arrive(r, rq)
     \/ \E r \in DOMAIN pc : Disconnect(r)
     \/ \E r \in DOMAIN pc : ServeStep(r)

SpecClients == InitClients /\ [][NextClients]_vars

\* the event loop runs every callback that is ready (single-threaded
\* cooperative scheduling), and the upstreams answer every call except those
\* made for a stalled request
SpecStall ==
  SpecClients /\ \A r \in 1..NumClientReq : WF_vars(r \notin stalled /\ ServeStep(r))

(***************************************************************************)
(* The configuration specification (index.ts 36-58): the module is loaded  *)
(* under an environment, which decides whether the gate is installed, and  *)
(* then serves requests.  arg holds process.env.                           *)
(***************************************************************************)
\* the gate is installed whenever X402_ENABLED has a truthy value
GateInstalledWhenTruthy(env) ==
  /\ Truthy(env.X402_ENABLED)
  /\ Truthy(OrElse(env.X402_PAY_TO, env.SOLANA_PAY_TO_ADDRESS))

\* lines 37-41: X402_ENABLED && PAY_TO_ADDRESS
GateInstalled(env) ==
  LET X402_ENABLED == env.X402_ENABLED = "true"
      payTo == OrElse(env.X402_PAY_TO, env.SOLANA_PAY_TO_ADDRESS)
  IN X402_ENABLED /\ Truthy(payTo)

InitConfig ==
  /\ arg \in [X402_ENABLED : {Undefined, "true", "TRUE", "1"},
               X402_PAY_TO : {Undefined, EmptyString, PAY_TO_ADDRESS},
               SOLANA_PAY_TO_ADDRESS : {Undefined, PAY_TO_ADDRESS}]
  /\ InitServer(1..NumReq, GateInstalled(arg))
  /\ ret = NotApplied
  /\ stalled = {}

NextConfig ==
  LET paid == TextHeader("object", "txPayExecutePrice", Undefined)
      ConfigRequests ==
        {Request(route, h, AbsentHeader, GoodBody(route)) :
           route \in PricedRouteKeys, h \in {AbsentHeader, paid}}
        \cup {Request(route, AbsentHeader, AbsentHeader, EmptyBody) :
                route \in FreeRouteKeys}
  IN \/ \E r \in DOMAIN pc, rq \in ConfigRequests : Arrive(r, rq)
     \/ \E r \in DOMAIN pc : Dispatch(r)
     \/ \E r \in DOMAIN pc : ServeStep(r)
     \/ \E r \in DOMAIN pc : SwapStart(r)
     \/ \E r \in DOMAIN pc, ok \in BOOLEAN, e \in SwapTxs : SwapReply(r, ok, e)

SpecConfig == InitConfig /\ [][NextConfig]_vars

(***************************************************************************)
(* GET /gasless/status applied on its own (index.ts 110-117,               *)
(* gasless-swap.ts 156-182) to what the two lookups of the sponsor client  *)
(* settle to: rpcCall throws (part_005 17-45), the result is absent and    *)
(* reading its member throws, or the member is returned.                   *)
(***************************************************************************)
\* isGaslessAvailable awaiting the fee payer lookup alone
isGaslessAvailableByFeePayer(feePayer, supportedTokens) ==
  IF feePayer.kind = "result"
  THEN [available |-> TRUE, feePayer |-> feePayer.value,
        supportedTokens |-> supportedTokens.value,
        swapBackend |-> "Jupiter (aggregates Raydium, Orca, Meteora, etc.)"]
  ELSE [available |-> FALSE, feePayer |-> "null", supportedTokens |-> <<>>,
        swapBackend |-> "Jupiter"]

\* gasless-swap.ts 162-181: Promise.all of the two lookups inside try/catch
isGaslessAvailable(feePayer, supportedTokens) ==
  IF feePayer.kind = "result" /\ supportedTokens.kind = "result"
  THEN [available |-> TRUE, feePayer |-> feePayer.value,
        supportedTokens |-> supportedTokens.value,
        swapBackend |-> "Jupiter (aggregates Raydium, Orca, Meteora, etc.)"]
  ELSE [available |-> FALSE, feePayer |-> "null", supportedTokens |-> <<>>,
        swapBackend |-> "Jupiter"]

InitStatus ==
  LET Failures == {"fetchFailed", "httpNotOk", "notJson", "rpcError", "noResult"}
      FeePayers == {[kind |-> k, value |-> Undefined] : k \in Failures}
                   \cup {[kind |-> "result", value |-> v] :
                           v \in {"koraFeePayer", PAY_TO_ADDRESS, Undefined}}
      TokenLists == {[kind |-> k, value |-> <<>>] : k \in Failures}
                    \cup {[kind |-> "result", value |-> v] :
                            v \in {<<>>, <<USDC_MINT>>, <<USDC_MINT, OTHER_MINT>>}}
  IN /\ InitServer({}, FALSE)
     /\ arg \in [feePayer : FeePayers, supportedTokens : TokenLists]
     /\ ret = NotApplied
     /\ stalled = {}

\* index.ts 110-117: res.json(status); the catch is entered only if
\* isGaslessAvailable rejects
ApplyStatus ==
  /\ ret = NotApplied
  /\ ret' = [status |-> 200,
             body |-> isGaslessAvailable(arg.feePayer, arg.supportedTokens)]
  /\ UNCHANGED <<installed, stalled, socket, req, pc, res, x402Payment, nextCalls, koraCalls,
                 koraReply, now, issued, rpcReply, assetVars, arg>>

SpecStatus == InitStatus /\ [][ApplyStatus]_vars

(***************************************************************************)
(* The path specification: the middleware is installed, and requests       *)
(* arrive on the configured paths and on paths that differ from them by a  *)
(* trailing slash or by the case of letters.                               *)
(***************************************************************************)
NextPaths ==
  LET paid == TextHeader("object", "txPayExecutePrice", Undefined)
      Paths == PricedRouteKeys
               \cup {"POST /actions/swap/", "POST /Actions/Swap",
                     "POST /gasless/quote/", "POST /gasless/Quote",
                     "POST /gasless/build/", "POST /GASLESS/BUILD",
                     "POST /gasless/execute/", "POST /Gasless/execute"}
      PathRequests ==
        {Request(route, h, AbsentHeader,
                 GoodBody(MountedRoute([route |-> route]))) :
           route \in Paths, h \in {AbsentHeader, paid}}
  IN \/ \E r \in DOMAIN pc, rq \in PathRequests : Arrive(r, rq)
     \/ \E r \in DOMAIN pc : ServeStep(r)
     \/ \E r \in DOMAIN pc : SwapStart(r)
     \/ \E r \in DOMAIN pc, ok \in BOOLEAN, e \in SwapTxs : SwapReply(r, ok, e)

SpecPaths == Init /\ [][NextPaths]_vars

(***************************************************************************)
(* Vocabulary of the properties.                                           *)
(***************************************************************************)
\* the request was received and the gate has finished its synchronous part
GateActed(r) == pc[r] \notin {"idle", "received"}

\* the request is for a priced route
OnPricedRoute(r) == req[r].route \in PricedRouteKeys

\* the downstream handler of r was invoked
HandlerInvoked(r) ==
  \/ nextCalls[r] > 0
  \/ pc[r] \in {"routed", "executing", "awaitFeePayer", "awaitDecimals",
                "awaitJupiterQuote", "awaitJupiter", "awaitDecimalsAll",
                "awaitEstimate", "awaitSwap"}

\* the header that carries the evidence: X-Payment when it has a value,
\* else Payment-Signature
EvidenceHeader(rq) ==
  IF rq.xPayment.kind = "text" THEN rq.xPayment ELSE rq.paymentSignature

\* the transaction blob embedded in the evidence, Undefined if there is none
EvidenceTx(rq) ==
  LET d == EvidenceHeader(rq).doc
  IN IF EvidenceHeader(rq).kind = "text" /\ d.kind = "object"
     THEN IF d.payloadTx \notin {Undefined, EmptyString} THEN d.payloadTx
          ELSE IF d.topTx \notin {Undefined, EmptyString} THEN d.topTx
          ELSE Undefined
     ELSE Undefined

\* the settlement submissions the gate made for r
GateSubmissions(r) ==
  {i \in 1..Len(koraCalls[r]) : koraCalls[r][i].caller = "x402Middleware"}

\* the sponsor answered r's submission without an error member
SponsorAccepted(r) == koraReply[r].kind = "json" /\ ~koraReply[r].error.present
\* the sponsor answered r's submission with an error member
SponsorRejected(r) == koraReply[r].kind = "json" /\ koraReply[r].error.present
\* the submission of r failed in transport: no reply, or one that is not JSON
TransportFailed(r) == koraReply[r].kind \in {"fetchFailed", "notJson"}

HasReceipt(r) == x402Payment[r] /= NoReceipt

(***************************************************************************)
(* C1: on a priced route the handler is invoked only if the gate earlier   *)
(* submitted this request's evidence to the sponsor and the sponsor        *)
(* answered with a successful settlement; with no evidence, undecodable    *)
(* evidence, a rejection or a transport failure it is not invoked.         *)
(***************************************************************************)
C1_HandlerOnlyAfterSettlement ==
  \A r \in DOMAIN pc :
    (OnPricedRoute(r) /\ HandlerInvoked(r)) =>
      /\ GateSubmissions(r) = {1}
      /\ koraCalls[r][1].method = "signAndSendTransaction"
      /\ koraCalls[r][1].transaction = EvidenceTx(req[r])
      /\ EvidenceTx(req[r]) /= Undefined
      /\ SponsorAccepted(r)

C1_Witness ==
  \E r \in DOMAIN pc :
    /\ OnPricedRoute(r) /\ nextCalls[r] = 1 /\ SponsorAccepted(r)
    /\ koraCalls[r][1].transaction = EvidenceTx(req[r])

(***************************************************************************)
(* C2: when the evidence of a priced request settles, the gate invokes the *)
(* handler exactly once and attaches exactly one receipt, after the        *)
(* settlement and before the handler runs; on no other path is a receipt   *)
(* attached, and an attached receipt is never replaced.                    *)
(***************************************************************************)
C2_State ==
  \A r \in DOMAIN pc :
    /\ (OnPricedRoute(r) /\ SponsorAccepted(r)) => (nextCalls[r] = 1 /\ HasReceipt(r))
    /\ HasReceipt(r) => (OnPricedRoute(r) /\ SponsorAccepted(r) /\ nextCalls[r] = 1)
    /\ (OnPricedRoute(r) /\ HandlerInvoked(r)) => HasReceipt(r)

C2_Step ==
  \A r \in DOMAIN pc :
    /\ HasReceipt(r) => (x402Payment'[r] = x402Payment[r] /\ nextCalls'[r] = nextCalls[r])
    /\ (~HasReceipt(r) /\ x402Payment'[r] /= NoReceipt) =>
         (pc[r] = "settling" /\ pc'[r] = "routed" /\ nextCalls[r] = 0)

C2_OnceSettledOnceInvoked == [](C2_State) /\ [][C2_Step]_vars

C2_Witness ==
  \E r \in DOMAIN pc :
    OnPricedRoute(r) /\ SponsorAccepted(r) /\ HasReceipt(r) /\ pc[r] = "done"
    /\ res[r].status = 200

(***************************************************************************)
(* C3: on a priced route the handler runs only if the evidence transaction *)
(* pays the amount and asset of the route's challenge to the configured    *)
(* payTo address; evidence that settles but pays another recipient,        *)
(* another asset or a smaller amount does not unlock the handler.          *)
(***************************************************************************)
PaysAsChallenged(tx, route) ==
  /\ Transfer(tx).to = PAY_TO_ADDRESS
  /\ Transfer(tx).asset = USDC_MINT
  /\ Transfer(tx).amount >= AmountAtomicUnits(RoutesConfig[route].usdCents)

C3_HandlerOnlyAfterVerifiedPayment ==
  \A r \in DOMAIN pc :
    (OnPricedRoute(r) /\ HandlerInvoked(r)) =>
      PaysAsChallenged(EvidenceTx(req[r]), req[r].route)

(***************************************************************************)
(* C4: a request to a priced route with neither an X-Payment nor a         *)
(* Payment-Signature header gets 402 and the same challenge in the         *)
(* X-Payment-Required and Payment-Required headers, base64 of JSON with    *)
(* payTo, amount and asset; the sponsor and the handler are not called.    *)
(***************************************************************************)
NoPaymentHeaders(r) ==
  req[r].xPayment.kind = "absent" /\ req[r].paymentSignature.kind = "absent"

C4_ChallengeWithoutEvidence ==
  \A r \in DOMAIN pc :
    (OnPricedRoute(r) /\ NoPaymentHeaders(r) /\ GateActed(r)) =>
      /\ pc[r] = "done"
      /\ res[r].status = 402
      /\ {"X-Payment-Required", "Payment-Required"} \subseteq DOMAIN res[r].headers
      /\ res[r].headers["X-Payment-Required"] = res[r].headers["Payment-Required"]
      /\ res[r].headers["X-Payment-Required"].encoding = "base64"
      /\ {"payTo", "amount", "asset"} \subseteq
           DOMAIN res[r].headers["X-Payment-Required"].text
      /\ koraCalls[r] = <<>>
      /\ ~HandlerInvoked(r)

C4_Witness ==
  \E r \in DOMAIN pc :
    OnPricedRoute(r) /\ NoPaymentHeaders(r) /\ res[r].status = 402

(***************************************************************************)
(* C5: a request to a route without a price passes the gate untouched:     *)
(* next is called exactly once, the gate sends nothing, sets no header,    *)
(* attaches no receipt and calls no sponsor, whatever headers it carries.  *)
(***************************************************************************)
C5_State ==
  \A r \in DOMAIN pc :
    (~OnPricedRoute(r) /\ GateActed(r)) =>
      /\ nextCalls[r] = 1
      /\ ~HasReceipt(r)
      /\ GateSubmissions(r) = {}
      /\ DOMAIN res[r].headers = {}
      /\ res[r].status \notin {400, 402}

C5_Step ==
  \A r \in DOMAIN pc :
    (pc[r] = "received" /\ pc'[r] /= "received" /\ ~OnPricedRoute(r)) =>
      /\ pc'[r] = "routed"
      /\ nextCalls'[r] = nextCalls[r] + 1
      /\ res'[r] = res[r]
      /\ x402Payment'[r] = x402Payment[r]
      /\ koraCalls'[r] = koraCalls[r]

C5_FreeRoutePassThrough == [](C5_State) /\ [][C5_Step]_vars

C5_Witness ==
  \E r \in DOMAIN pc :
    /\ ~OnPricedRoute(r) /\ GateActed(r) /\ nextCalls[r] = 1
    /\ req[r].xPayment.kind = "text" /\ EvidenceTx(req[r]) /= Undefined

(***************************************************************************)
(* C6: on a priced route, evidence that cannot be decoded or that holds no *)
(* transaction in payload.transaction or transaction is answered with 400, *)
(* never 402; the sponsor is not called and the handler is not invoked.    *)
(***************************************************************************)
\* a payment header is present
EvidencePresented(r) ==
  req[r].xPayment.kind /= "absent" \/ req[r].paymentSignature.kind /= "absent"

\* the header the gate reads has a value
EvidenceNonEmpty(r) == EvidenceHeader(req[r]).kind = "text"

BadEvidenceAnswered400(r) ==
  /\ pc[r] = "done"
  /\ res[r].status = 400
  /\ koraCalls[r] = <<>>
  /\ ~HandlerInvoked(r)
  /\ ~HasReceipt(r)

\* the claim as stated: for every presented evidence without a transaction
C6_Original ==
  \A r \in DOMAIN pc :
    (OnPricedRoute(r) /\ GateActed(r) /\ EvidencePresented(r)
       /\ EvidenceTx(req[r]) = Undefined) => BadEvidenceAnswered400(r)

\* C6 as amended: for every evidence header with a non-empty value; a header
\* whose value is empty counts as no evidence and gets the 402 challenge
C6_BadEvidenceIs400 ==
  \A r \in DOMAIN pc :
    /\ (OnPricedRoute(r) /\ GateActed(r) /\ EvidenceNonEmpty(r)
          /\ EvidenceTx(req[r]) = Undefined) => BadEvidenceAnswered400(r)
    /\ (OnPricedRoute(r) /\ GateActed(r) /\ ~EvidenceNonEmpty(r)) =>
          (res[r].status = 402 /\ koraCalls[r] = <<>> /\ ~HandlerInvoked(r))

C6_Witness ==
  \E r \in DOMAIN pc :
    /\ OnPricedRoute(r) /\ EvidenceNonEmpty(r) /\ res[r].status = 400
    /\ EvidenceHeader(req[r]).doc.kind = "object"
    /\ EvidenceTx(req[r]) = Undefined

(***************************************************************************)
(* C7: when the sponsor answers the submission with an error, the gate     *)
(* answers 402 with the sponsor's reason, never 5xx, does not invoke the   *)
(* handler, attaches no receipt and sets no X-Payment-Response header.     *)
(***************************************************************************)
C7_RejectionIs402 ==
  \A r \in DOMAIN pc :
    SponsorRejected(r) =>
      /\ pc[r] = "done"
      /\ res[r].status = 402
      /\ koraReply[r].error.message \notin {Undefined, EmptyString} =>
           res[r].body.message = koraReply[r].error.message
      /\ ~HandlerInvoked(r)
      /\ ~HasReceipt(r)
      /\ "X-Payment-Response" \notin DOMAIN res[r].headers

C7_Witness ==
  \E r \in DOMAIN pc :
    /\ SponsorRejected(r) /\ res[r].status = 402
    /\ res[r].body.message = "insufficient funds"

(***************************************************************************)
(* C8: a transport failure of the settlement call (sponsor unreachable, or *)
(* a reply that cannot be parsed) gets a status that is neither that of a  *)
(* sponsor rejection (402) nor that of malformed evidence (400).           *)
(***************************************************************************)
C8_TransportFailureDistinct ==
  \A r \in DOMAIN pc :
    (TransportFailed(r) /\ pc[r] = "done") => res[r].status \notin {400, 402}

(***************************************************************************)
(* C9: within one request the gate makes at most one settlement submission *)
(* to the sponsor: none after a rejection, a transport failure or a later  *)
(* failure of the handler.                                                 *)
(***************************************************************************)
C9_State ==
  \A r \in DOMAIN pc : Cardinality(GateSubmissions(r)) <= 1

C9_Step ==
  \A r \in DOMAIN pc :
    koraReply[r] /= NoReply =>
      {i \in 1..Len(koraCalls'[r]) : koraCalls'[r][i].caller = "x402Middleware"}
        = GateSubmissions(r)

C9_AtMostOneSubmission == [](C9_State) /\ [][C9_Step]_vars

C9_Witness ==
  \E r \in DOMAIN pc :
    /\ Cardinality(GateSubmissions(r)) = 1
    /\ SponsorAccepted(r) /\ pc[r] = "done" /\ res[r].status = 500

(***************************************************************************)
(* C10: a POST /gasless/execute presented after the expiresAt of the quote *)
(* its envelope was built with is not handed to the sponsor and gets no    *)
(* signature: it fails with a stale-quote reason.                          *)
(***************************************************************************)
\* the request presents a signed envelope this server issued, after its expiry
PresentedStale(r) ==
  /\ req[r].route = "POST /gasless/execute"
  /\ \E e \in issued : /\ e.transaction = EnvelopeOf(req[r].signedTransaction)
                       /\ req[r].receivedAt > e.expiresAt

C10_StaleExecuteRejected ==
  \A r \in DOMAIN pc :
    PresentedStale(r) =>
      /\ koraCalls[r] = <<>>
      /\ res[r].status /= 200

(***************************************************************************)
(* C11: a signed envelope is handed to the sponsor by the execute handler  *)
(* only if this server issued, in an earlier build response, the quote and *)
(* the unsigned envelope it was signed from: no swap is SUBMITTED without  *)
(* having been QUOTED.                                                     *)
(***************************************************************************)
\* the signed envelopes request r handed to the sponsor for execution
SubmittedBy(r) ==
  {koraCalls[r][i].transaction :
     i \in {j \in 1..Len(koraCalls[r]) : koraCalls[r][j].caller = "executeGaslessSwap"}}

C11_SubmittedOnlyIfQuoted ==
  \A r \in DOMAIN pc :
    \A signed \in SubmittedBy(r) :
      \E q \in issued : q.transaction = EnvelopeOf(signed)

(***************************************************************************)
(* C12: a submitted execute is answered once; with 200, a signature and an *)
(* explorer URL only if the sponsor call returned HTTP success without an  *)
(* error member; with an error response that carries a reason and no       *)
(* signature after every sponsor error and transport failure.              *)
(***************************************************************************)
\* the sponsor's sign-and-send call of r failed: transport, HTTP status, body
\* or JSON-RPC error
SponsorCallFailed(r) ==
  rpcReply[r].kind \in {"fetchFailed", "httpNotOk", "notJson", "rpcError"}

C12_State ==
  \A r \in DOMAIN pc :
    (SubmittedBy(r) /= {} /\ pc[r] = "done") =>
      /\ res[r].status \in {200, 500}
      /\ res[r].status = 200 =>
           /\ rpcReply[r].kind = "result"
           /\ {"signature", "explorerUrl"} \subseteq DOMAIN res[r].body
      /\ SponsorCallFailed(r) =>
           /\ res[r].status >= 400
           /\ res[r].body.kind = "error"
           /\ Truthy(res[r].body.error)
           /\ "signature" \notin DOMAIN res[r].body

\* a response, once sent, is final
C12_Step ==
  \A r \in DOMAIN pc : res[r].status /= 0 => res'[r] = res[r]

C12_ExecuteEndsOnce == [](C12_State) /\ [][C12_Step]_vars

C12_Witness ==
  \E r, q \in DOMAIN pc :
    /\ SubmittedBy(r) /= {} /\ pc[r] = "done"
    /\ SponsorCallFailed(r) /\ res[r].status = 500
    /\ SubmittedBy(q) /= {} /\ pc[q] = "done"
    /\ rpcReply[q].kind = "result" /\ res[q].status = 200

(***************************************************************************)
(* C13: the quote answered by POST /gasless/quote and the quote inside the *)
(* answer of POST /gasless/build carry an expiresAt of exactly 30 seconds  *)
(* after the moment the quote is issued.                                   *)
(***************************************************************************)
\* the quote in the 200 response of a quote or build request
QuoteOf(response, route) ==
  IF route = "POST /gasless/build" THEN response.body.quote ELSE response.body

\* request r is answered with a quote in this step
QuoteIssued(r) ==
  /\ req[r].route \in QuoteRoutes
  /\ res[r].status = 0
  /\ res'[r].status = 200

C13_Step ==
  \A r \in DOMAIN pc :
    QuoteIssued(r) => QuoteOf(res'[r], req[r].route).expiresAt = now + 30000

C13_ExpiresThirtySecondsAfterIssue == [][C13_Step]_vars

\* a quote and a build were answered some time after they arrived
C13_Witness ==
  \E r, q \in DOMAIN pc :
    /\ req[r].route = "POST /gasless/quote" /\ res[r].status = 200
    /\ res[r].body.expiresAt > req[r].receivedAt + 30000
    /\ req[q].route = "POST /gasless/build" /\ res[q].status = 200
    /\ res[q].body.quote.expiresAt > req[q].receivedAt + 30000

(***************************************************************************)
(* C14: a failure the protocol expects (the sponsor rejects the payment,   *)
(* the quote presented is stale, a named asset is unknown to the ledger)   *)
(* is answered with a 4xx status, never with 5xx.                          *)
(***************************************************************************)
\* r failed because the ledger holds no mint at an address r named
FailedOnUnknownAsset(r) ==
  /\ res[r].body.kind = "error"
  /\ res[r].body.error = "Could not get decimals for mint"

C14_ExpectedFailuresAre4xx ==
  \A r \in DOMAIN pc :
    (/\ res[r].status >= 400
     /\ \/ FailedOnUnknownAsset(r)
        \/ SponsorRejected(r) /\ nextCalls[r] = 0
        \/ PresentedStale(r)) => res[r].status < 500

(***************************************************************************)
(* C15: a request that lacks a required field (swap: account, inputMint,   *)
(* outputMint, amount; quote and build: inputMint, outputMint, amount,     *)
(* userWallet; execute: signedTransaction) is answered with 400 and a      *)
(* message naming the missing fields, and its handler calls neither the    *)
(* ledger nor the aggregator nor the sponsor.                              *)
(***************************************************************************)
\* the fields the handler of the route requires
RequiredFields(route) ==
  CASE route = "POST /actions/swap" -> {"account", "inputMint", "outputMint", "amount"}
    [] route \in QuoteRoutes -> {"inputMint", "outputMint", "amount", "userWallet"}
    [] route = "POST /gasless/execute" -> {"signedTransaction"}
    [] OTHER -> {}

\* the field of the request is absent or empty
Lacks(rq, field) ==
  CASE field = "account" -> ~Truthy(rq.account)
    [] field = "userWallet" -> ~Truthy(rq.userWallet)
    [] field = "signedTransaction" -> ~Truthy(rq.signedTransaction)
    [] field = "inputMint" -> ~TruthyString(rq.inputMint)
    [] field = "outputMint" -> ~TruthyString(rq.outputMint)
    [] OTHER -> rq.amount = NoAmount

MissingFields(rq) == {f \in RequiredFields(rq.route) : Lacks(rq, f)}

\* the field names that occur in an error text
FieldsNamed(text) ==
  CASE text = "Missing account in request body" -> {"account"}
    [] text = "Missing required query parameters: inputMint, outputMint, amount"
         -> {"inputMint", "outputMint", "amount"}
    [] text = "Missing required fields: inputMint, outputMint, amount, userWallet"
         -> {"inputMint", "outputMint", "amount", "userWallet"}
    [] text = "Missing signedTransaction" -> {"signedTransaction"}
    [] OTHER -> {}

\* the handler of r has finished and made no outbound call
AnsweredWithoutCalls(r) ==
  /\ pc[r] = "done"
  /\ koraCalls[r] = <<>> /\ ledgerCalls[r] = <<>> /\ aggregatorCalls[r] = <<>>

\* r lacks a field and its handler has run
LackingHandled(r) ==
  /\ MissingFields(req[r]) /= {}
  /\ pc[r] \notin {"idle", "received", "routed"}

\* the claim as stated: every missing field is named
C15_Original ==
  \A r \in DOMAIN pc :
    LackingHandled(r) =>
      /\ AnsweredWithoutCalls(r)
      /\ res[r].status = 400
      /\ MissingFields(req[r]) \subseteq FieldsNamed(res[r].body.error)

\* C15 as amended: the message names a missing field; a missing account is
\* reported alone
C15_MissingFieldIs400 ==
  \A r \in DOMAIN pc :
    LackingHandled(r) =>
      /\ AnsweredWithoutCalls(r)
      /\ res[r].status = 400
      /\ IF "account" \in MissingFields(req[r])
         THEN FieldsNamed(res[r].body.error) = {"account"}
         ELSE MissingFields(req[r]) \subseteq FieldsNamed(res[r].body.error)

C15_Witness ==
  \E r, q \in DOMAIN pc :
    /\ req[r].route = "POST /gasless/build" /\ MissingFields(req[r]) = {"userWallet"}
    /\ res[r].status = 400
    /\ req[q].route = "POST /actions/swap" /\ MissingFields(req[q]) = {"account", "amount"}
    /\ res[q].status = 400

(***************************************************************************)
(* C16: resolution maps every letter-case variant of a registered symbol   *)
(* to the mint of that symbol and every other text to itself; it returns   *)
(* for every text.                                                         *)
(***************************************************************************)
C16_ResolutionCaseInsensitiveTotal ==
  ret /= NotApplied =>
    /\ ret.kind = "returned"
    /\ \A sym \in DOMAIN tokens :
         arg.value \in CaseVariants(sym) => ret.value = tokens[sym]
    /\ (\A sym \in DOMAIN tokens : arg.value \notin CaseVariants(sym))
         => ret.value = arg.value

C16_Witness ==
  /\ ret /= NotApplied
  /\ arg.value = <<"u", "S", "d", "c">>
  /\ ret.value = USDC_TOKEN_MINT

(***************************************************************************)
(* C17: for a quote or build request the decimals lookup and the           *)
(* aggregator are given the canonical mint of inputMint and of outputMint, *)
(* also when the request names a registered symbol.                        *)
(***************************************************************************)
C17_QuotePathResolvesSymbols ==
  \A r \in DOMAIN pc :
    req[r].route \in QuoteRoutes =>
      /\ \A i \in DOMAIN locals[r].lookups :
           locals[r].lookups[i] \in {ResolveMint(req[r].inputMint),
                                     ResolveMint(req[r].outputMint)}
      /\ \A i \in DOMAIN aggregatorCalls[r] :
           /\ aggregatorCalls[r][i].inputMint = ResolveMint(req[r].inputMint)
           /\ aggregatorCalls[r][i].outputMint = ResolveMint(req[r].outputMint)

(***************************************************************************)
(* C18: getTokenDecimals looks an identifier up at the ledger only while   *)
(* the cache holds no value for it, whatever the value (0 included): once  *)
(* a value is stored, no later call makes a ledger lookup for it.          *)
(***************************************************************************)
\* the identifiers r asks the ledger for in this step
AskedNow(r) ==
  {ledgerCalls'[r][i] : i \in (DOMAIN ledgerCalls'[r]) \ (DOMAIN ledgerCalls[r])}

C18_Step ==
  \A r \in DOMAIN pc : \A mint \in AskedNow(r) : mint \notin DOMAIN TOKEN_DECIMALS

C18_NoLookupOnceCached == [][C18_Step]_vars

(***************************************************************************)
(* C19: two concurrent POST /gasless/build requests naming the same asset  *)
(* that is not in the decimals cache fail only if a call to the sponsor,   *)
(* the ledger or the aggregator fails; when both are answered they used    *)
(* the same decimals for that asset and the cache holds that value.        *)
(***************************************************************************)
\* the assets both r and q name that the cache does not hold at the start
SharedUnseen(r, q) ==
  ({req[r].inputMint, req[r].outputMint} \cap {req[q].inputMint, req[q].outputMint}
     \cap DOMAIN MintAccounts) \ DOMAIN InitialDecimals

\* the decimals request r obtained for the asset
DecimalsUsed(r, mint) ==
  {locals[r].decimals[slot] :
     slot \in {sl \in DOMAIN locals[r].decimals : SlotMint(req[r], sl) = mint}}

\* what the catch block reports when an outbound call failed
UpstreamFailures ==
  {"Kora RPC failed", "Jupiter quote failed", "Jupiter swap build failed",
   "fetch failed"}

\* r and q are build requests for assets the ledger knows, both answered
BothBuildsAnswered(r, q) ==
  /\ r /= q
  /\ req[r].route = "POST /gasless/build" /\ req[q].route = "POST /gasless/build"
  /\ {req[r].inputMint, req[r].outputMint, req[q].inputMint, req[q].outputMint}
       \subseteq DOMAIN MintAccounts
  /\ SharedUnseen(r, q) /= {}
  /\ pc[r] = "done" /\ pc[q] = "done"

C19_ConcurrentBuildsAgree ==
  \A r, q \in DOMAIN pc :
    BothBuildsAnswered(r, q) =>
      /\ \A x \in {r, q} :
           \/ res[x].status = 200
           \/ res[x].status = 500 /\ res[x].body.error \in UpstreamFailures
      /\ (res[r].status = 200 /\ res[q].status = 200) =>
           \A mint \in SharedUnseen(r, q) :
             /\ mint \in DOMAIN TOKEN_DECIMALS
             /\ DecimalsUsed(r, mint) = {TOKEN_DECIMALS[mint]}
             /\ DecimalsUsed(q, mint) = {TOKEN_DECIMALS[mint]}

\* both builds looked the same unseen asset up at the ledger and succeeded
C19_Witness ==
  \E r, q \in DOMAIN pc :
    /\ BothBuildsAnswered(r, q)
    /\ res[r].status = 200 /\ res[q].status = 200
    /\ \E mint \in SharedUnseen(r, q) :
         /\ \E i \in DOMAIN ledgerCalls[r] : ledgerCalls[r][i] = mint
         /\ \E i \in DOMAIN ledgerCalls[q] : ledgerCalls[q][i] = mint

(***************************************************************************)
(* C20: for decimals d and an amount a of at most d fraction digits, the   *)
(* raw amount is a * 10^d and the raw amount written back with d fraction  *)
(* digits is a.                                                            *)
(***************************************************************************)
\* a * 10^d, a natural number when a has at most d fraction digits
ExactRaw(a, d) == a.units * (10 ^ (d - a.digits))

C20_AmountRoundTrip ==
  ret /= NotApplied =>
    /\ ret.raw = ExactRaw(arg.amount, arg.decimals)
    /\ ret.human = Decimal(ExactRaw(arg.amount, arg.decimals), arg.decimals)

(***************************************************************************)
(* C21: the route description lists each venue label of the route plan     *)
(* exactly once, in the order of first occurrence, the labels joined by an *)
(* arrow (" -> " with the arrow U+2192): [A, A, B, A] gives "A -> B".      *)
(***************************************************************************)
C21_RouteDescriptionListsLabelsOnce ==
  ret /= NotApplied /\ arg.kind = "labels" =>
    LET plan == arg.value
        labelSet == {plan[i] : i \in DOMAIN plan}
        first(v) == CHOOSE i \in DOMAIN plan : plan[i] = v /\ \A j \in 1..(i - 1) : plan[j] /= v
        arrow == <<" ", "U+2192", " ">>
        arrowed[u \in Seq(labelSet)] ==
          IF Len(u) = 0 THEN <<>>
          ELSE IF Len(u) = 1 THEN u[1]
          ELSE arrowed[SubSeq(u, 1, Len(u) - 1)] \o arrow \o u[Len(u)]
    IN \E u \in [1..Cardinality(labelSet) -> labelSet] :
         /\ \A i, j \in DOMAIN u : i < j => first(u[i]) < first(u[j])
         /\ ret.value = arrowed[u]

(***************************************************************************)
(* C22: in every quote returned by POST /gasless/quote and POST            *)
(* /gasless/build, gasFee.token is the feeToken of the request when one is *)
(* supplied and the default fee asset (the USDC mint) when none is, and it *)
(* is the asset the sponsor's fee estimate of that request was asked for.  *)
(***************************************************************************)
FeeEstimateCalls(r) ==
  {i \in 1..Len(koraCalls[r]) : koraCalls[r][i].method = "estimateTransactionFee"}

C22_GasFeeTokenIsRequested ==
  \A r \in DOMAIN pc :
    req[r].route \in QuoteRoutes /\ res[r].status = 200 =>
      LET token == QuoteOf(res[r], req[r].route).gasFee.token
      IN /\ token = IF req[r].feeToken \in {Undefined, EmptyString}
                    THEN "EPjFWdd5AufqSSqeM2qN1xzybapC8G4wEGGkZwyTDt1v"
                    ELSE req[r].feeToken
         /\ FeeEstimateCalls(r) /= {}
         /\ \A i \in FeeEstimateCalls(r) : koraCalls[r][i].fee_token = token

\* a quote with the fee asset of the request and a build with the default
C22_Witness ==
  \E r, q \in DOMAIN pc :
    /\ req[r].route = "POST /gasless/quote" /\ res[r].status = 200
    /\ req[r].feeToken = OTHER_MINT
    /\ res[r].body.gasFee.token = OTHER_MINT
    /\ req[q].route = "POST /gasless/build" /\ res[q].status = 200
    /\ req[q].feeToken = Undefined
    /\ res[q].body.quote.gasFee.token = USDC_MINT

(***************************************************************************)
(* C23: the build step performs no signing and no interaction with the fee *)
(* sponsor: between the arrival of a build request and its response no     *)
(* operation of the sponsor is called for it.                              *)
(***************************************************************************)
C23_BuildCallsNoSponsorOperation ==
  \A r \in DOMAIN pc :
    req[r].route = "POST /gasless/build" => koraCalls[r] = <<>>

(***************************************************************************)
(* C24: once the gate has started the settlement submission of a request,  *)
(* the client closing its connection aborts nothing and is followed by no  *)
(* compensation: the submission stays with the sponsor until it is         *)
(* answered, no further sponsor call is made by the gate, and when the     *)
(* sponsor accepts, the receipt is attached and the handler is invoked as  *)
(* for a connected client.                                                 *)
(***************************************************************************)
C24_State ==
  \A r \in DOMAIN pc :
    socket[r].settling =>
      /\ Cardinality(GateSubmissions(r)) = 1
      /\ koraReply[r] = NoReply => pc[r] = "settling"
      /\ SponsorAccepted(r) =>
           /\ HasReceipt(r)
           /\ x402Payment[r].transactionHash = koraReply[r].signature
           /\ nextCalls[r] = 1
           /\ HandlerInvoked(r)

C24_Step ==
  \A r \in DOMAIN pc :
    socket[r].state = "open" /\ socket'[r].state = "closed" =>
      UNCHANGED <<pc, res, koraCalls, x402Payment, nextCalls>>

C24_DisconnectAbortsNothing == [](C24_State) /\ [][C24_Step]_vars

\* the client left during the settlement, the sponsor accepted, the handler
\* ran and answered
C24_Witness ==
  \E r \in DOMAIN pc :
    /\ socket[r].settling
    /\ SponsorAccepted(r)
    /\ HasReceipt(r)
    /\ req[r].route = "POST /gasless/execute"
    /\ res[r].status = 200

(***************************************************************************)
(* C25: a request whose upstream call is never answered stalls only        *)
(* itself: every other request that has arrived, its own upstream calls    *)
(* being answered, receives its response.                                  *)
(***************************************************************************)
C25_OthersAreAnswered ==
  \A r \in 1..NumClientReq :
    (pc[r] /= "idle" /\ r \notin stalled) ~> (pc[r] = "done" /\ res[r].status /= 0)

\* the first request stalls at the sponsor, the second is a quote that went
\* to the sponsor, the ledger and the aggregator and was answered
C25_Witness ==
  /\ stalled = {1}
  /\ pc[1] = "settling"
  /\ req[2].route = "POST /gasless/quote"
  /\ res[2].status = 200

(***************************************************************************)
(* C26: the gate keeps no record of evidence it has settled: evidence that *)
(* is presented again in another request is submitted to the sponsor       *)
(* again, so that two accepted submissions of one payment are reachable.   *)
(***************************************************************************)
C26_RepeatedEvidenceIsSubmittedAgain ==
  \A r, q \in DOMAIN pc :
    /\ r /= q
    /\ HasReceipt(r)
    /\ OnPricedRoute(q) /\ GateActed(q)
    /\ EvidenceTx(req[q]) /= Undefined
    /\ EvidenceTx(req[q]) = EvidenceTx(req[r])
    => /\ Cardinality(GateSubmissions(q)) = 1
       /\ \A i \in GateSubmissions(q) : koraCalls[q][i].transaction = EvidenceTx(req[r])
       /\ HasReceipt(q) => SponsorAccepted(q)

\* the same request with the same evidence twice, both submissions accepted
C26_Witness ==
  /\ req[1] = [req[2] EXCEPT !.receivedAt = req[1].receivedAt]
  /\ req[1].route = "POST /gasless/execute"
  /\ EvidenceTx(req[1]) = "txPayExecutePrice"
  /\ \A r \in {1, 2} :
       /\ SponsorAccepted(r) /\ HasReceipt(r)
       /\ koraCalls[r][1] = KoraCall("x402Middleware", "signAndSendTransaction",
                                     "txPayExecutePrice")

(***************************************************************************)
(* C27: with the gate installed, GET /, GET /actions.json, GET             *)
(* /actions/swap and GET /gasless/status are free: the gate answers        *)
(* neither 402 nor 400 to them, submits nothing to the sponsor and hands   *)
(* them to their handler.                                                  *)
(***************************************************************************)
C27_FreeEndpointsAreFree ==
  \A r \in DOMAIN pc :
    (installed /\ GateActed(r)
     /\ req[r].route \in {"GET /", "GET /actions.json", "GET /actions/swap",
                          "GET /gasless/status"}) =>
      /\ res[r].status \notin {400, 402}
      /\ GateSubmissions(r) = {}
      /\ koraReply[r] = NoReply
      /\ HandlerInvoked(r)

\* the service status was asked for with a header that is no JSON, and
\* answered
C27_Witness ==
  \E r \in DOMAIN pc :
    /\ installed
    /\ req[r].route = "GET /gasless/status"
    /\ req[r].xPayment.kind = "text" /\ req[r].xPayment.doc.kind = "garbage"
    /\ res[r].status = 200

(***************************************************************************)
(* C28: the amount of the challenge of a priced route, in atomic units of  *)
(* USDC (6 decimals), is the documented price of the route: 1000 for POST  *)
(* /actions/swap ($0.001), 5000 for POST /gasless/quote ($0.005), 10000    *)
(* for POST /gasless/build ($0.01), 20000 for POST /gasless/execute        *)
(* ($0.02); it is ceil(usdCents * 10^6 / 100).                             *)
(***************************************************************************)
C28_ChallengeAmountIsThePrice ==
  \A r \in DOMAIN pc :
    (OnPricedRoute(r) /\ res[r].status = 402
     /\ "paymentRequirements" \in DOMAIN res[r].body) =>
      LET amount == res[r].body.paymentRequirements.amount
          cents == RoutesConfig[req[r].route].usdCents
      IN /\ amount = CASE req[r].route = "POST /actions/swap" -> 1000
                       [] req[r].route = "POST /gasless/quote" -> 5000
                       [] req[r].route = "POST /gasless/build" -> 10000
                       [] req[r].route = "POST /gasless/execute" -> 20000
         /\ amount * cents.den * 100 >= cents.num * 1000000
         /\ (amount - 1) * cents.den * 100 < cents.num * 1000000
         /\ res[r].headers["X-Payment-Required"].text.amount = amount
         /\ res[r].body.paymentRequirements.asset
              = "EPjFWdd5AufqSSqeM2qN1xzybapC8G4wEGGkZwyTDt1v"

\* the challenge of the route whose price is a tenth of a cent
C28_Witness ==
  \E r \in DOMAIN pc :
    /\ req[r].route = "POST /actions/swap"
    /\ res[r].status = 402
    /\ "paymentRequirements" \in DOMAIN res[r].body
    /\ res[r].body.paymentRequirements.amount = 1000

(***************************************************************************)
(* C29: every receipt the gate attaches carries a defined settlement       *)
(* identifier, the transaction signature the sponsor returned for the      *)
(* submission of that request; no request is forwarded with a receipt      *)
(* whose settlement identifier is absent.                                  *)
(***************************************************************************)
C29_ReceiptCarriesSignature ==
  \A r \in DOMAIN pc :
    HasReceipt(r) =>
      /\ x402Payment[r].transactionHash \notin {Undefined, EmptyString}
      /\ x402Payment[r].transactionHash = koraReply[r].signature

(***************************************************************************)
(* C30: the X-Payment-Response header is set on exactly the responses of   *)
(* the requests the gate attached a receipt to, it is set before the       *)
(* handler runs, and the transactionHash it carries is the settlement      *)
(* identifier of the receipt (neither is there when the sponsor returned   *)
(* no signature).                                                          *)
(***************************************************************************)
PaymentResponseHeader(r) == res[r].headers["X-Payment-Response"].text

C30_State ==
  \A r \in DOMAIN pc :
    /\ "X-Payment-Response" \in DOMAIN res[r].headers <=> HasReceipt(r)
    /\ HasReceipt(r) =>
         /\ res[r].headers["X-Payment-Response"].encoding = "base64"
         /\ PaymentResponseHeader(r).success = TRUE
         /\ x402Payment[r].transactionHash =
              IF "transactionHash" \in DOMAIN PaymentResponseHeader(r)
              THEN PaymentResponseHeader(r).transactionHash
              ELSE Undefined

C30_Step ==
  \A r \in DOMAIN pc :
    /\ ("X-Payment-Response" \notin DOMAIN res[r].headers
        /\ "X-Payment-Response" \in DOMAIN res'[r].headers) =>
         /\ ~HandlerInvoked(r)
         /\ pc'[r] = "routed"
         /\ res'[r].status = 0
    /\ "X-Payment-Response" \in DOMAIN res[r].headers =>
         /\ "X-Payment-Response" \in DOMAIN res'[r].headers
         /\ res'[r].headers["X-Payment-Response"] = res[r].headers["X-Payment-Response"]

C30_PaymentResponseHeaderWithReceipt == [](C30_State) /\ [][C30_Step]_vars

\* a paid request was answered by its handler under the header
C30_Witness ==
  \E r \in DOMAIN pc :
    /\ HasReceipt(r)
    /\ res[r].status \in {200, 500}
    /\ "transactionHash" \in DOMAIN PaymentResponseHeader(r)
    /\ PaymentResponseHeader(r).transactionHash = "paymentSig"
    /\ x402Payment[r].transactionHash = "paymentSig"

(***************************************************************************)
(* C31: the amount a receipt records is in the minor units of the          *)
(* challenge and equals the amount the challenge of the same route         *)
(* demands.                                                                *)
(***************************************************************************)
C31_ReceiptAmountIsChallengeAmount ==
  \A r \in DOMAIN pc :
    HasReceipt(r) =>
      x402Payment[r].amount.num =
        x402Payment[r].amount.den
          * PaymentRequirements(PAY_TO_ADDRESS, RoutesConfig[RouteKey(req[r])]).amount

(***************************************************************************)
(* C32: under every interleaving of concurrent requests the paymentReceipt *)
(* in a response body is the receipt of the settlement of the request      *)
(* answered: the response of a request never carries the receipt of        *)
(* another, and the response of a request that made no payment carries     *)
(* none.                                                                   *)
(***************************************************************************)
CarriesReceipt(r) == "paymentReceipt" \in DOMAIN res[r].body

C32_ReceiptIsOfTheSameRequest ==
  \A r \in DOMAIN pc :
    res[r].status /= 0 =>
      /\ CarriesReceipt(r) =>
           /\ HasReceipt(r)
           /\ GateSubmissions(r) /= {}
           /\ SponsorAccepted(r)
           /\ res[r].body.paymentReceipt = x402Payment[r]
           /\ res[r].body.paymentReceipt.transactionHash = koraReply[r].signature
           /\ res[r].body.paymentReceipt.amount = RoutesConfig[RouteKey(req[r])].usdCents
      /\ (GateSubmissions(r) = {} \/ ~SponsorAccepted(r)) => ~CarriesReceipt(r)
      /\ (HasReceipt(r) /\ res[r].status = 200) => CarriesReceipt(r)

\* two paid requests in flight together, on routes of different prices,
\* each answered with its own receipt
C32_Witness ==
  \E r, q \in DOMAIN pc :
    /\ r < q
    /\ RouteKey(req[r]) = "POST /gasless/quote"
    /\ RouteKey(req[q]) = "POST /gasless/execute"
    /\ res[r].status = 200 /\ res[q].status = 200
    /\ CarriesReceipt(r) /\ CarriesReceipt(q)
    /\ res[r].body.paymentReceipt /= res[q].body.paymentReceipt
    /\ socket[r].state = "open" /\ socket[q].state = "open"

(***************************************************************************)
(* C33: payment gating is active only when X402_ENABLED is exactly "true"  *)
(* and a pay-to address is configured; under every other configuration     *)
(* the gate is not installed and every route, the four POST routes         *)
(* included, is served with no 402 response and no settlement call.        *)
(***************************************************************************)
GatingConfigured ==
  /\ arg.X402_ENABLED = "true"
  /\ \/ arg.X402_PAY_TO \notin {Undefined, EmptyString}
     \/ arg.SOLANA_PAY_TO_ADDRESS \notin {Undefined, EmptyString}

C33_GatingOnlyWhenConfigured ==
  \A r \in DOMAIN pc :
    /\ ~GatingConfigured =>
         /\ ~installed
         /\ res[r].status /= 402
         /\ "X-Payment-Required" \notin DOMAIN res[r].headers
         /\ GateSubmissions(r) = {}
         /\ x402Payment[r] = NoReceipt
         /\ pc[r] \notin {"arrived", "settling"}
         /\ GateActed(r) => HandlerInvoked(r) \/ pc[r] = "done"
    /\ (GatingConfigured /\ OnPricedRoute(r) /\ NoPaymentHeaders(r) /\ GateActed(r)) =>
         res[r].status = 402

\* X402_ENABLED is set, though not to "true", an address is configured, and
\* a priced POST request without evidence was answered by its handler
C33_Witness ==
  \E r \in DOMAIN pc :
    /\ arg.X402_ENABLED \in {"TRUE", "1"}
    /\ arg.X402_PAY_TO = PAY_TO_ADDRESS
    /\ req[r].route = "POST /gasless/execute"
    /\ NoPaymentHeaders(r)
    /\ res[r].status = 200

(***************************************************************************)
(* C34: GET /gasless/status never fails: it reports available = true with  *)
(* the fee payer and the supported tokens of the sponsor exactly when both *)
(* the fee payer lookup and the supported token lookup succeed, and        *)
(* available = false with feePayer = null and an empty supportedTokens     *)
(* list when either fails; no error is raised.                             *)
(***************************************************************************)
C34_StatusNeverFails ==
  ret /= NotApplied =>
    LET bothSucceed == arg.feePayer.kind = "result"
                       /\ arg.supportedTokens.kind = "result"
    IN /\ ret.status = 200
       /\ ret.body.available = bothSucceed
       /\ bothSucceed =>
            /\ ret.body.feePayer = arg.feePayer.value
            /\ ret.body.supportedTokens = arg.supportedTokens.value
       /\ ~bothSucceed =>
            /\ ret.body.feePayer = "null"
            /\ ret.body.supportedTokens = <<>>

\* the fee payer lookup succeeded, the token lookup failed, and the status
\* reports the service as not available
C34_Witness ==
  /\ ret /= NotApplied
  /\ arg.feePayer = [kind |-> "result", value |-> "koraFeePayer"]
  /\ arg.supportedTokens.kind = "httpNotOk"
  /\ ret.status = 200
  /\ ret.body.available = FALSE

(***************************************************************************)
(* C35: with gating enabled, every request the router dispatches to one of *)
(* the four priced handlers is treated as priced by the gate, also when    *)
(* its path differs from the configured route key by a trailing slash or   *)
(* by the case of letters: no path variant reaches a priced handler        *)
(* through the free pass-through of the gate.                              *)
(***************************************************************************)
C35_PathVariantsArePriced ==
  \A r \in DOMAIN pc :
    (installed /\ MountedRoute(req[r]) \in PricedRouteKeys /\ HandlerInvoked(r)) =>
      /\ IsPriced(RouteKey(req[r]))
      /\ GateSubmissions(r) /= {}
      /\ SponsorAccepted(r)

(***************************************************************************)
(* C36: on a priced route the gate runs strictly before the validation     *)
(* and the upstream work of the handler: when a priced request with        *)
(* evidence gets a response of its handler (400 for missing fields, 500    *)
(* for an upstream failure, or 200), the sponsor has already accepted its  *)
(* settlement, and no later step of the request issues a compensating or   *)
(* cancelling call to the sponsor.                                         *)
(***************************************************************************)
HandlerCallers == {"executeGaslessSwap", "getKoraFeePayer", "estimateFee"}

HandlerWorked(r) ==
  \/ HandlerInvoked(r)
  \/ ledgerCalls[r] /= <<>>
  \/ aggregatorCalls[r] /= <<>>
  \/ \E i \in DOMAIN koraCalls[r] : koraCalls[r][i].caller \in HandlerCallers

C36_State ==
  \A r \in DOMAIN pc :
    (OnPricedRoute(r) /\ HandlerWorked(r)) =>
      /\ SponsorAccepted(r)
      /\ HasReceipt(r)
      /\ koraCalls[r] /= <<>>
      /\ koraCalls[r][1].caller = "x402Middleware"
      /\ \A i \in 2..Len(koraCalls[r]) :
           /\ koraCalls[r][i].caller \in HandlerCallers
           /\ koraCalls[r][i].method \in {"getPayerSigner", "estimateTransactionFee",
                                          "signAndSendTransaction"}

C36_Step ==
  \A r \in DOMAIN pc :
    SponsorAccepted(r) =>
      /\ koraReply'[r] = koraReply[r]
      /\ x402Payment'[r] = x402Payment[r]
      /\ Len(koraCalls'[r]) >= Len(koraCalls[r])
      /\ SubSeq(koraCalls'[r], 1, Len(koraCalls[r])) = koraCalls[r]

C36_SettledBeforeHandlerWorks == [](C36_State) /\ [][C36_Step]_vars

\* the payment of a request was settled and its handler then refused the
\* body with 400
C36_Witness ==
  \E r \in DOMAIN pc :
    /\ OnPricedRoute(r)
    /\ EvidenceTx(req[r]) /= Undefined
    /\ SponsorAccepted(r)
    /\ res[r].status = 400
    /\ nextCalls[r] = 1

(***************************************************************************)
(* C37: a gasless quote is all or nothing: getGaslessSwapQuote calls, in   *)
(* this order, the fee payer lookup of the sponsor, the quote and the      *)
(* build of the aggregator, and the fee estimate of the sponsor on the     *)
(* envelope just built, and returns a quote only if all three succeed; if  *)
(* one fails, no later call of the sequence is made and the response is an *)
(* error that holds no part of a quote.                                    *)
(***************************************************************************)
QuoteSponsorCalls(r) ==
  SelectSeq(koraCalls[r], LAMBDA c : c.caller /= "x402Middleware")

SponsorMethods(r) ==
  [i \in DOMAIN QuoteSponsorCalls(r) |-> QuoteSponsorCalls(r)[i].method]

AggregatorEndpoints(r) ==
  [i \in DOMAIN aggregatorCalls[r] |-> aggregatorCalls[r][i].endpoint]

HandlerFailedWith(r, messages) ==
  /\ res[r].status = 500
  /\ res[r].body.error \in messages

C37_State ==
  \A r \in DOMAIN pc :
    MountedRoute(req[r]) = "POST /gasless/quote" =>
      \* the order of the calls
      /\ SponsorMethods(r) \in {<<>>, <<"getPayerSigner">>,
                                <<"getPayerSigner", "estimateTransactionFee">>}
      /\ AggregatorEndpoints(r) \in {<<>>, <<"jupiter quote">>,
                                     <<"jupiter quote", "jupiter swap">>}
      /\ (aggregatorCalls[r] /= <<>> \/ ledgerCalls[r] /= <<>>) =>
           SponsorMethods(r) /= <<>>
      /\ Len(SponsorMethods(r)) = 2 =>
           /\ AggregatorEndpoints(r) = <<"jupiter quote", "jupiter swap">>
           /\ QuoteSponsorCalls(r)[2].transaction = locals[r].transaction
           /\ QuoteSponsorCalls(r)[2].transaction = EnvelopeFor(r)
           /\ locals[r].pending = {}
      \* nothing follows a failure
      /\ (HandlerFailedWith(r, {"Kora RPC failed"}) /\ Len(SponsorMethods(r)) = 1) =>
           aggregatorCalls[r] = <<>> /\ ledgerCalls[r] = <<>>
      /\ HandlerFailedWith(r, {"Jupiter quote failed"}) =>
           /\ AggregatorEndpoints(r) = <<"jupiter quote">>
           /\ Len(SponsorMethods(r)) = 1
      /\ HandlerFailedWith(r, {"Jupiter swap build failed", "Invalid public key input",
                               "Could not get decimals for mint", "fetch failed"}) =>
           Len(SponsorMethods(r)) = 1
      \* a quote only after the three, and no part of one otherwise
      /\ res[r].status = 200 =>
           /\ Len(SponsorMethods(r)) = 2
           /\ res[r].body.kind = "quote"
           /\ "gasFee" \in DOMAIN res[r].body
      /\ res[r].status \notin {0, 200} =>
           /\ res[r].body.kind = "error"
           /\ DOMAIN res[r].body \cap {"gasFee", "expiresAt", "quote", "transaction"} = {}

C37_Step ==
  \A r \in DOMAIN pc :
    pc[r] = "done" =>
      /\ koraCalls'[r] = koraCalls[r]
      /\ aggregatorCalls'[r] = aggregatorCalls[r]
      /\ ledgerCalls'[r] = ledgerCalls[r]
      /\ res'[r] = res[r]

C37_QuoteIsAllOrNothing == [](C37_State) /\ [][C37_Step]_vars

\* the build of the aggregator failed after the fee payer lookup and the
\* quote succeeded: the fee estimate was never asked for
C37_Witness ==
  \E r \in DOMAIN pc :
    /\ MountedRoute(req[r]) = "POST /gasless/quote"
    /\ HandlerFailedWith(r, {"Jupiter swap build failed"})
    /\ SponsorMethods(r) = <<"getPayerSigner">>
    /\ AggregatorEndpoints(r) = <<"jupiter quote", "jupiter swap">>

(***************************************************************************)
(* C38: every request that enters the gate reaches exactly one terminal    *)
(* outcome: pass-through (free route), 402 challenge, 400 evidence error,  *)
(* 402 rejection, or forwarding to the handler after settlement; provided  *)
(* the call to the sponsor returns or fails, it reaches one eventually;    *)
(* the gate never both sends a response of its own and invokes the handler *)
(* for the same request.                                                   *)
(***************************************************************************)
GateAnswered(r, code, errors) ==
  /\ res[r].status = code
  /\ res[r].body.kind = "error"
  /\ res[r].body.error \in errors

GateOutcomes(r) ==
  {o \in {"pass-through", "challenge", "evidence error", "rejection", "forwarded"} :
     CASE o = "pass-through"   -> ~IsPriced(RouteKey(req[r])) /\ nextCalls[r] > 0
       [] o = "challenge"      -> GateAnswered(r, 402, {"Payment Required"})
       [] o = "evidence error" -> GateAnswered(r, 400, {"Invalid payment payload",
                                                        "Invalid payment"})
       [] o = "rejection"      -> GateAnswered(r, 402, {"Payment failed"})
       [] o = "forwarded"      -> IsPriced(RouteKey(req[r])) /\ nextCalls[r] > 0}

GateFinished(r) == pc[r] \notin {"idle", "received", "settling"}

C38_State ==
  \A r \in DOMAIN pc :
    /\ Cardinality(GateOutcomes(r)) = IF GateFinished(r) THEN 1 ELSE 0
    /\ nextCalls[r] <= 1
    /\ "forwarded" \in GateOutcomes(r) => HasReceipt(r) /\ SponsorAccepted(r)
    /\ GateOutcomes(r) \cap {"challenge", "evidence error", "rejection"} /= {} =>
         nextCalls[r] = 0 /\ pc[r] = "done"

C38_Step ==
  \A r \in DOMAIN pc :
    /\ GateFinished(r) =>
         /\ nextCalls'[r] = nextCalls[r]
         /\ GateOutcomes(r)' = GateOutcomes(r)
    /\ nextCalls'[r] /= nextCalls[r] => res[r].status = 0 /\ res'[r].status = 0

C38_GateEndsInOneOutcome ==
  /\ [](C38_State)
  /\ [][C38_Step]_vars
  /\ \A r \in 1..NumClientReq :
       (pc[r] = "received" /\ r \notin stalled) ~> (GateFinished(r) /\ GateOutcomes(r) /= {})

\* one request was forwarded after its settlement while the other, whose
\* evidence holds no transaction, was answered 400 by the gate
C38_Witness ==
  \E r, q \in DOMAIN pc :
    /\ GateOutcomes(r) = {"forwarded"}
    /\ GateOutcomes(q) = {"evidence error"}
    /\ res[q].body.error = "Invalid payment payload"

(***************************************************************************)
(* C39: the decimals cache is monotone under every sequence and            *)
(* interleaving of lookups: no entry is ever removed, a value stored for   *)
(* an identifier is never replaced by a different value, and the five      *)
(* registered entries (SOL 9; USDC, USDT, RAY, JUP 6) are never            *)
(* overwritten.                                                            *)
(***************************************************************************)
C39_State ==
  /\ \A mint \in DOMAIN InitialDecimals :
       /\ mint \in DOMAIN TOKEN_DECIMALS
       /\ TOKEN_DECIMALS[mint] = InitialDecimals[mint]
  /\ TOKEN_DECIMALS[SOL_MINT] = 9
  /\ \A mint \in {USDC_TOKEN_MINT, USDT_MINT, RAY_MINT, JUP_MINT} :
       TOKEN_DECIMALS[mint] = 6

C39_Step ==
  \A mint \in DOMAIN TOKEN_DECIMALS :
    /\ mint \in DOMAIN TOKEN_DECIMALS'
    /\ TOKEN_DECIMALS'[mint] = TOKEN_DECIMALS[mint]

C39_CacheIsMonotone == [](C39_State) /\ [][C39_Step]_vars

\* two requests looked the same identifier up at the ledger and both stored
\* what they got
C39_Witness ==
  \E r, q \in DOMAIN pc :
    /\ r /= q
    /\ UNSEEN_MINT \in DOMAIN TOKEN_DECIMALS
    /\ \E i \in DOMAIN ledgerCalls[r] : ledgerCalls[r][i] = UNSEEN_MINT
    /\ \E i \in DOMAIN ledgerCalls[q] : ledgerCalls[q][i] = UNSEEN_MINT
    /\ DecimalsUsed(r, UNSEEN_MINT) = {TOKEN_DECIMALS[UNSEEN_MINT]}
    /\ DecimalsUsed(q, UNSEEN_MINT) = {TOKEN_DECIMALS[UNSEEN_MINT]}
    /\ locals[r].pending = {} /\ locals[q].pending = {}

(***************************************************************************)
(* C40: a failed decimals lookup leaves the cache unchanged: when the      *)
(* ledger lookup of an identifier throws or returns no parsed mint data,   *)
(* getTokenDecimals raises an error and stores nothing for the identifier, *)
(* and a later lookup of the identifier contacts the ledger again.         *)
(***************************************************************************)
\* the lookups of r that are answered in this step
AnsweredNow(r) == locals[r].pending \ locals'[r].pending

\* the identifiers r calls getTokenDecimals for in this step
CalledNow(r) ==
  {locals'[r].lookups[i] :
     i \in (DOMAIN locals'[r].lookups) \ (DOMAIN locals[r].lookups)}

C40_Step ==
  \A r \in DOMAIN pc :
    /\ \A slot \in AnsweredNow(r) :
         LET mint == SlotMint(req[r], slot)
         IN (mint \notin DOMAIN MintAccounts \/ slot \notin DOMAIN locals'[r].decimals) =>
              /\ TOKEN_DECIMALS' = TOKEN_DECIMALS
              /\ slot \notin DOMAIN locals'[r].decimals
              /\ pc[r] /= "done" =>
                   /\ pc'[r] = "done"
                   /\ res'[r].status = 500
                   /\ res'[r].body.error \in {"Could not get decimals for mint",
                                              "fetch failed"}
    /\ \A mint \in CalledNow(r) :
         (mint \notin DOMAIN TOKEN_DECIMALS /\ IsPublicKey(mint)) => mint \in AskedNow(r)

C40_FailedLookupStoresNothing == [][C40_Step]_vars

====
